---- MODULE Spec2Model ----
(***************************************************************************)
(* State-machine model of the DCF77 decoder DCF77Utils (src/src/lib.rs)    *)
(* and of the helpers it calls.  The decoder object is the record held in  *)
(* the variable dcf77; every public method is an operator from a decoder   *)
(* record (and the call's arguments) to the decoder record after the call, *)
(* and an action that applies it.                                          *)
(*                                                                         *)
(* Encoding of Rust values:                                                *)
(*   Option<bool>  : None = -1, Some(false) = 0, Some(true) = 1            *)
(*   Option<u8/16> : None = -1, Some(n) = n                                *)
(*   u32 timestamp : [hi, lo], two 16-bit limbs, value = hi * 2^16 + lo    *)
(*                   (TLC integers are 32-bit signed, a u32 does not fit)  *)
(***************************************************************************)
EXTENDS Integers, Sequences, FiniteSets, TLC

\* ---------------------------------------------------------------- bounds
\* Number of API calls explored after each seed state.
MaxSteps == 2

\* ------------------------------------------------------------- constants
SPIKE_LIMIT == 30000
ACTIVE_LIMIT == 150000
ACTIVE_RUNAWAY == 250000
MINUTE_LIMIT == 1500000
PASSIVE_RUNAWAY == 2500000
\* the literal 1_000_000 of handle_new_edge: one second in microseconds
SECOND_US == 1000000

\* radio_datetime_utils constants used by the decoder
BIT_BUFFER_SIZE == 61
LEAP_ANNOUNCED == 1
LEAP_PROCESSED == 2
LEAP_MISSING == 4
DST_ANNOUNCED == 1
DST_PROCESSED == 2
DST_JUMP == 4
DST_SUMMER == 8

None == -1

\* b as u8 / b as bool for a known bit
BoolToBit(b) == IF b THEN 1 ELSE 0

\* (flags & mask) != 0 for a one-bit mask
HasFlag(flags, mask) == (flags \div mask) % 2 = 1

\* flags | mask and flags & !mask for a one-bit mask
SetFlag(flags, mask) == IF HasFlag(flags, mask) THEN flags ELSE flags + mask

ClearFlag(flags, mask) == IF HasFlag(flags, mask) THEN flags - mask ELSE flags

\* ------------------------------------------------------- u32 arithmetic
W16 == 65536

\* the u32 with value n, for 0 <= n < 2^31
U32(n) == [hi |-> n \div W16, lo |-> n % W16]

U32_MAX == [hi |-> W16 - 1, lo |-> W16 - 1]

U32Lt(a, b) == a.hi < b.hi \/ (a.hi = b.hi /\ a.lo < b.lo)

\* a - b for a >= b
U32Sub(a, b) ==
    LET borrow == IF a.lo < b.lo THEN 1 ELSE 0
    IN  [hi |-> a.hi - b.hi - borrow, lo |-> a.lo - b.lo + borrow * W16]

\* a + b with the carry out of bit 31: [val, carry]
U32AddCarry(a, b) ==
    LET lo == a.lo + b.lo
        hi == a.hi + b.hi + (lo \div W16)
    IN  [val |-> [hi |-> hi % W16, lo |-> lo % W16], carry |-> hi \div W16]

\* a + b modulo 2^32
U32WrappingAdd(a, b) == U32AddCarry(a, b).val

\* radio_datetime_helpers::time_diff(t0, t1)
time_diff(t0, t1) ==
    IF t1 = t0 THEN U32(0)
    ELSE IF U32Lt(t0, t1) THEN U32Sub(t1, t0)
    ELSE U32WrappingAdd(U32WrappingAdd(U32Sub(U32_MAX, t0), t1), U32(1))

\* ------------------------------------------------- bit buffer helpers
Slots == 0 .. (BIT_BUFFER_SIZE - 1)

RECURSIVE BinarySum_ExclusiveStop(_, _, _, _)
\* mutant of BinarySum: the range start..stop is taken without its last bit
BinarySum_ExclusiveStop(bit_buffer, start, stop, mult) ==
    IF start >= stop THEN 0
    ELSE mult * bit_buffer[start]
         + BinarySum_ExclusiveStop(bit_buffer, start + 1, stop, 2 * mult)

RECURSIVE BinarySum(_, _, _, _)
\* the loop of get_binary_value / get_bcd_value: sum of bit_i * mult, mult
\* doubling, over start..=stop
BinarySum(bit_buffer, start, stop, mult) ==
    IF start > stop THEN 0
    ELSE mult * bit_buffer[start] + BinarySum(bit_buffer, start + 1, stop, 2 * mult)

AnyNone(bit_buffer, start, stop) == \E i \in start .. stop : bit_buffer[i] = None

\* dcf77_helpers::get_binary_value
get_binary_value(bit_buffer, start, stop) ==
    IF AnyNone(bit_buffer, start, stop) THEN None
    ELSE BinarySum(bit_buffer, start, stop, 1) % W16

\* radio_datetime_helpers::get_bcd_value
get_bcd_value(bit_buffer, start, stop) ==
    IF AnyNone(bit_buffer, start, stop) THEN None
    ELSE LET bcd == BinarySum(bit_buffer, start, stop, 1)
             units == bcd % 16
             tens == bcd \div 16
         IN  IF units < 10 /\ tens < 10 THEN units + 10 * tens ELSE None

RECURSIVE XorBits(_, _, _)
XorBits(bit_buffer, start, stop) ==
    IF start > stop THEN 0
    ELSE (bit_buffer[start] + XorBits(bit_buffer, start + 1, stop)) % 2

\* radio_datetime_helpers::get_parity
get_parity(bit_buffer, start, stop, parity) ==
    IF parity = None \/ AnyNone(bit_buffer, start, stop) THEN None
    ELSE (parity + XorBits(bit_buffer, start, stop)) % 2

\* ------------------------------------- RadioDateTimeUtils (the aggregate)
\* The date/time aggregate belongs to the crate radio_datetime_utils; it is
\* modelled at the interface the decoder uses.

\* RadioDateTimeUtils::new(7): weekdays run 1..7
MIN_WEEKDAY == 1
MAX_WEEKDAY == 7

RadioDateTimeUtils_new ==
    [year |-> None, month |-> None, day |-> None, weekday |-> None,
     hour |-> None, minute |-> None, dst |-> None, leap_second |-> None,
     jump_year |-> FALSE, jump_month |-> FALSE, jump_day |-> FALSE,
     jump_weekday |-> FALSE, jump_hour |-> FALSE, jump_minute |-> FALSE,
     minutes_running |-> 0, dst_count |-> 0, leap_second_count |-> 0,
     first_minute |-> TRUE]

clear_jumps(r) ==
    [r EXCEPT !.jump_year = FALSE, !.jump_month = FALSE, !.jump_day = FALSE,
              !.jump_weekday = FALSE, !.jump_hour = FALSE, !.jump_minute = FALSE]

\* last day of the month of a two-digit year (the century is taken as 2000)
last_day(year, month) ==
    IF month = 2 THEN (IF year % 4 = 0 THEN 29 ELSE 28)
    ELSE IF month \in {4, 6, 9, 11} THEN 30 ELSE 31

\* add_minute: [ok, r]; ok = FALSE and r unchanged when a field is None
add_minute(r) ==
    IF r.minute = None \/ r.hour = None \/ r.day = None \/ r.weekday = None
       \/ r.month = None \/ r.year = None \/ r.dst = None
    THEN [ok |-> FALSE, r |-> r]
    ELSE
    LET wrap_minute == r.minute + 1 = 60
        minute == IF wrap_minute THEN 0 ELSE r.minute + 1
        dst_shift == IF wrap_minute /\ HasFlag(r.dst, DST_ANNOUNCED)
                     THEN (IF HasFlag(r.dst, DST_SUMMER) THEN -1 ELSE 1)
                     ELSE 0
        hour_raw == r.hour + dst_shift + (IF wrap_minute THEN 1 ELSE 0)
        wrap_hour == wrap_minute /\ hour_raw = 24
        hour == IF wrap_hour THEN 0 ELSE hour_raw
        weekday == IF ~wrap_hour THEN r.weekday
                   ELSE IF r.weekday + 1 = MAX_WEEKDAY + 1 THEN MIN_WEEKDAY
                   ELSE r.weekday + 1
        wrap_day == wrap_hour /\ r.day + 1 > last_day(r.year, r.month)
        day == IF ~wrap_hour THEN r.day ELSE IF wrap_day THEN 1 ELSE r.day + 1
        wrap_month == wrap_day /\ r.month + 1 = 13
        month == IF ~wrap_day THEN r.month ELSE IF wrap_month THEN 1 ELSE r.month + 1
        year == IF ~wrap_month THEN r.year
                ELSE IF r.year + 1 = 100 THEN 0 ELSE r.year + 1
    IN  [ok |-> TRUE,
         r |-> [r EXCEPT !.minute = minute, !.hour = hour, !.weekday = weekday,
                         !.day = day, !.month = month, !.year = year]]

\* the body shared by set_year, set_month, set_weekday, set_hour, set_minute:
\* the new value is taken when it is Some, in range and valid; the jump flag
\* is raised when asked for and the field changes from one Some to another
NewField(old, value, lowest, highest, valid) ==
    IF value # None /\ value >= lowest /\ value <= highest /\ valid THEN value ELSE old

JumpField(old, new, check_jump) == check_jump /\ new # None /\ old # None /\ new # old

set_minute(r, value, valid, check_jump) ==
    LET v == NewField(r.minute, value, 0, 59, valid)
    IN  [r EXCEPT !.minute = v, !.jump_minute = JumpField(r.minute, v, check_jump)]

set_hour(r, value, valid, check_jump) ==
    LET v == NewField(r.hour, value, 0, 23, valid)
    IN  [r EXCEPT !.hour = v, !.jump_hour = JumpField(r.hour, v, check_jump)]

set_weekday(r, value, valid, check_jump) ==
    LET v == NewField(r.weekday, value, MIN_WEEKDAY, MAX_WEEKDAY, valid)
    IN  [r EXCEPT !.weekday = v, !.jump_weekday = JumpField(r.weekday, v, check_jump)]

set_month(r, value, valid, check_jump) ==
    LET v == NewField(r.month, value, 1, 12, valid)
    IN  [r EXCEPT !.month = v, !.jump_month = JumpField(r.month, v, check_jump)]

set_year(r, value, valid, check_jump) ==
    LET v == NewField(r.year, value, 0, 99, valid)
    IN  [r EXCEPT !.year = v, !.jump_year = JumpField(r.year, v, check_jump)]

\* set_day needs year, month and weekday to know the last day of the month
set_day(r, value, valid, check_jump) ==
    LET known == r.year # None /\ r.month # None /\ r.weekday # None
        v == IF known THEN NewField(r.day, value, 1, last_day(r.year, r.month), valid)
             ELSE r.day
    IN  [r EXCEPT !.day = v, !.jump_day = JumpField(r.day, v, check_jump)]

\* set_dst(value, announce, check_jump): value and announce are Option<bool>
set_dst(r, value, announce, check_jump) ==
    IF value = None \/ announce = None THEN r
    ELSE
    LET d0 == ClearFlag(IF r.dst = None THEN 0 ELSE r.dst, DST_JUMP)
        count == IF r.minute # None /\ announce = 1 THEN r.dst_count + 1 ELSE r.dst_count
        d1 == IF r.minute # None /\ r.minute > 0
              THEN (IF 2 * count > r.minutes_running THEN SetFlag(d0, DST_ANNOUNCED)
                    ELSE ClearFlag(d0, DST_ANNOUNCED))
              ELSE d0
        changed == (value = 1) # HasFlag(d1, DST_SUMMER)
        allowed == r.first_minute \/ (HasFlag(d1, DST_ANNOUNCED) /\ r.minute = 0)
        d2 == IF changed /\ allowed
              THEN (IF value = 1 THEN SetFlag(d1, DST_SUMMER) ELSE ClearFlag(d1, DST_SUMMER))
              ELSE IF changed /\ check_jump THEN SetFlag(d1, DST_JUMP)
              ELSE d1
        d3 == IF r.minute = 0 /\ HasFlag(d2, DST_ANNOUNCED)
              THEN SetFlag(d2, DST_PROCESSED) ELSE ClearFlag(d2, DST_PROCESSED)
        d4 == IF r.minute = 0 THEN ClearFlag(d3, DST_ANNOUNCED) ELSE d3
    IN  [r EXCEPT !.dst = d4, !.dst_count = IF r.minute = 0 THEN 0 ELSE count]

\* set_leap_second(announce, minute_length)
set_leap_second(r, announce, minute_length) ==
    IF announce = None THEN r
    ELSE
    LET l0 == IF r.leap_second = None THEN 0 ELSE r.leap_second
        count == IF r.minute # None /\ announce = 1
                 THEN r.leap_second_count + 1 ELSE r.leap_second_count
        l1 == IF r.minute # None /\ r.minute > 0
              THEN (IF 2 * count > r.minutes_running THEN SetFlag(l0, LEAP_ANNOUNCED)
                    ELSE ClearFlag(l0, LEAP_ANNOUNCED))
              ELSE l0
        l2 == IF r.minute = 0 /\ HasFlag(l1, LEAP_ANNOUNCED)
              THEN (IF minute_length = 60
                    THEN SetFlag(SetFlag(l1, LEAP_PROCESSED), LEAP_MISSING)
                    ELSE ClearFlag(SetFlag(l1, LEAP_PROCESSED), LEAP_MISSING))
              ELSE ClearFlag(ClearFlag(l1, LEAP_PROCESSED), LEAP_MISSING)
        l3 == IF r.minute = 0 THEN ClearFlag(l2, LEAP_ANNOUNCED) ELSE l2
    IN  [r EXCEPT !.leap_second = l3,
                  !.leap_second_count = IF r.minute = 0 THEN 0 ELSE count]

\* is_valid: date, time and DST are all Some
is_valid(r) ==
    r.dst # None /\ r.year # None /\ r.month # None /\ r.day # None
    /\ r.weekday # None /\ r.hour # None /\ r.minute # None

\* bump_minutes_running: the minutes counter behind the announcement votes
bump_minutes_running(r) ==
    [r EXCEPT !.minutes_running = IF r.minute = 0 THEN 0 ELSE r.minutes_running + 1,
              !.first_minute = FALSE]

\* RadioDateTimeUtils::increase_second(second, new_minute, minute_length):
\* [second, ret]
rdt_increase_second(second, new_minute, minute_length) ==
    IF new_minute THEN [second |-> 0, ret |-> TRUE]
    ELSE IF second + 1 >= minute_length THEN [second |-> 0, ret |-> FALSE]
    ELSE [second |-> second + 1, ret |-> TRUE]


\* ------------------------------------------------------------ DCF77Utils
DecodeTypes == {"Live", "LogFile"}

\* DCF77Utils::new(dt)
New(dt) ==
    [decode_type |-> dt,
     first_minute |-> TRUE,
     new_minute |-> FALSE,
     new_second |-> FALSE,
     second |-> 0,
     old_second |-> 0,
     bit_buffer |-> [i \in Slots |-> None],
     radio_datetime |-> RadioDateTimeUtils_new,
     leap_second_is_one |-> None,
     parity_1 |-> None,
     parity_2 |-> None,
     parity_3 |-> None,
     bit_0 |-> None,
     third_party |-> None,
     call_bit |-> None,
     bit_20 |-> None,
     before_first_edge |-> TRUE,
     t0 |-> U32(0),
     spike_limit |-> SPIKE_LIMIT]

force_new_minute(d) == [d EXCEPT !.new_minute = TRUE]

get_current_bit(d) == d.bit_buffer[d.second]

\* mutant of set_current_bit: new_minute is left as it is
set_current_bit_KeepsNewMinute(d, value) == [d EXCEPT !.bit_buffer[d.second] = value]

set_current_bit(d, value) ==
    [d EXCEPT !.bit_buffer[d.second] = value, !.new_minute = FALSE]

\* mutant of set_spike_limit: ACTIVE_LIMIT itself is accepted (<= for <)
set_spike_limit_Inclusive(d, value) ==
    IF value <= ACTIVE_LIMIT THEN [d EXCEPT !.spike_limit = value] ELSE d

set_spike_limit(d, value) ==
    IF value < ACTIVE_LIMIT THEN [d EXCEPT !.spike_limit = value] ELSE d

\* mutant of ActiveBit: the limits taken inclusively (<= for <)
ActiveBit_Inclusive(t_diff) ==
    IF ~U32Lt(U32(ACTIVE_LIMIT), t_diff) THEN 0
    ELSE IF ~U32Lt(U32(ACTIVE_RUNAWAY), t_diff) THEN 1
    ELSE None

\* the bit a falling edge stores for an active time of t_diff
ActiveBit(t_diff) ==
    IF U32Lt(t_diff, U32(ACTIVE_LIMIT)) THEN 0
    ELSE IF U32Lt(t_diff, U32(ACTIVE_RUNAWAY)) THEN 1
    ELSE None

\* mutant of PassiveNewMinute: >= MINUTE_LIMIT for > MINUTE_LIMIT
PassiveNewMinute_Inclusive(t_diff) == ~U32Lt(t_diff, U32(MINUTE_LIMIT))

\* new_minute after a rising edge that is no passive runaway
PassiveNewMinute(t_diff) == U32Lt(U32(MINUTE_LIMIT), t_diff)

\* mutant of PassiveNewSecond: every such rising edge starts a second
PassiveNewSecond_Always(t_diff) == TRUE

\* new_second after a rising edge that is no passive runaway
PassiveNewSecond(t_diff) == U32Lt(U32(SECOND_US - ACTIVE_RUNAWAY), t_diff)

IsSpike(d, t_diff) == U32Lt(t_diff, U32(d.spike_limit))

\* self.t0 += t_diff on a spike.  The sum can leave the u32 range once the
\* timestamp counter has wrapped; the build decides what happens then: with
\* overflow checks the call panics, without them the sum wraps.  The set of
\* outcomes [panic, t0].
SpikeShift(t0, t_diff) ==
    LET sum == U32AddCarry(t0, t_diff)
    IN  IF sum.carry = 0 THEN {[panic |-> FALSE, t0 |-> sum.val]}
        ELSE {[panic |-> TRUE, t0 |-> t0], [panic |-> FALSE, t0 |-> sum.val]}

\* mutant of SpikeEdge: a spike leaves the reference where it is
SpikeEdge_KeepsReference(d, t_diff) == {[panic |-> FALSE, d |-> d]}

\* the spike branch (lines 226-230): only t0 moves
SpikeEdge(d, t_diff) ==
    {[panic |-> o.panic, d |-> [d EXCEPT !.t0 = o.t0]] : o \in SpikeShift(d.t0, t_diff)}

\* mutant of LowEdge: the falling edge ends the minute marker as well
LowEdge_ClearsNewMinute(d, t, t_diff) ==
    [d EXCEPT !.t0 = t, !.new_second = FALSE, !.new_minute = FALSE,
              !.bit_buffer[d.second] = ActiveBit(t_diff)]

\* a falling edge that is no spike (lines 231-241)
LowEdge(d, t, t_diff) ==
    [d EXCEPT !.t0 = t, !.new_second = FALSE, !.bit_buffer[d.second] = ActiveBit(t_diff)]

\* mutant of HighEdge: the passive runaway also drops the two flags
HighEdge_RunawayClearsFlags(d, t, t_diff) ==
    IF U32Lt(t_diff, U32(PASSIVE_RUNAWAY))
    THEN [d EXCEPT !.t0 = t, !.new_minute = PassiveNewMinute(t_diff),
                   !.new_second = PassiveNewSecond(t_diff)]
    ELSE [d EXCEPT !.t0 = t, !.bit_buffer[d.second] = None,
                   !.new_minute = FALSE, !.new_second = FALSE]

\* a rising edge that is no spike (lines 231, 242-247)
HighEdge(d, t, t_diff) ==
    IF U32Lt(t_diff, U32(PASSIVE_RUNAWAY))
    THEN [d EXCEPT !.t0 = t, !.new_minute = PassiveNewMinute(t_diff),
                   !.new_second = PassiveNewSecond(t_diff)]
    ELSE [d EXCEPT !.t0 = t, !.bit_buffer[d.second] = None]

\* mutant of handle_new_edge: the first edge is classified like any other,
\* against the reference 0 of a new decoder
handle_new_edge_FirstClassified(d, is_low_edge, t) ==
    LET t_diff == time_diff(d.t0, t)
        e == [d EXCEPT !.before_first_edge = FALSE]
    IN  IF IsSpike(e, t_diff) THEN SpikeEdge(e, t_diff)
        ELSE IF is_low_edge THEN {[panic |-> FALSE, d |-> LowEdge(e, t, t_diff)]}
        ELSE {[panic |-> FALSE, d |-> HighEdge(e, t, t_diff)]}

\* mutant of handle_new_edge: the delta is a saturating difference, 0 once
\* the timestamp counter has wrapped
handle_new_edge_SaturatingDelta(d, is_low_edge, t) ==
    IF d.before_first_edge
    THEN {[panic |-> FALSE, d |-> [d EXCEPT !.before_first_edge = FALSE, !.t0 = t]]}
    ELSE
    LET t_diff == IF U32Lt(t, d.t0) THEN U32(0) ELSE time_diff(d.t0, t)
    IN  IF IsSpike(d, t_diff) THEN SpikeEdge(d, t_diff)
        ELSE IF is_low_edge THEN {[panic |-> FALSE, d |-> LowEdge(d, t, t_diff)]}
        ELSE {[panic |-> FALSE, d |-> HighEdge(d, t, t_diff)]}

\* handle_new_edge(is_low_edge, t): the set of outcomes [panic, d]
handle_new_edge(d, is_low_edge, t) ==
    IF d.before_first_edge
    THEN {[panic |-> FALSE, d |-> [d EXCEPT !.before_first_edge = FALSE, !.t0 = t]]}
    ELSE
    LET t_diff == time_diff(d.t0, t)
    IN  IF IsSpike(d, t_diff) THEN SpikeEdge(d, t_diff)
        ELSE IF is_low_edge THEN {[panic |-> FALSE, d |-> LowEdge(d, t, t_diff)]}
        ELSE {[panic |-> FALSE, d |-> HighEdge(d, t, t_diff)]}

\* mutant of get_minute_length: the condition is not looked at
get_minute_length_AnyMinute(r, condition, flags) ==
    IF r.leap_second # None
    THEN (IF HasFlag(r.leap_second, flags) THEN 61 ELSE 60)
    ELSE 60

\* mutant of get_minute_length: a leap minute is taken to have 62 seconds
get_minute_length_TooLong(r, condition, flags) ==
    IF r.leap_second # None
    THEN (IF condition /\ HasFlag(r.leap_second, flags) THEN 62 ELSE 60)
    ELSE 60

\* the macro get_minute_length!(self, condition, flags)
get_minute_length(r, condition, flags) ==
    IF r.leap_second # None
    THEN (IF condition /\ HasFlag(r.leap_second, flags) THEN 61 ELSE 60)
    ELSE 60

get_this_minute_length(d) == get_minute_length(d.radio_datetime, TRUE, LEAP_PROCESSED)

get_next_minute_length(d) ==
    get_minute_length(d.radio_datetime, d.radio_datetime.minute = 59, LEAP_ANNOUNCED)

\* mutant of increase_second: the length of this minute for the next one's
increase_second_ThisLength(d) ==
    LET minute_length == get_this_minute_length(d)
        res == rdt_increase_second(d.second, d.new_minute, minute_length)
    IN  [ret |-> res.ret,
         d |-> [d EXCEPT !.old_second = d.second, !.second = res.second]]

\* mutant of increase_second: old_second is not recorded on a minute wrap
increase_second_KeepsOld(d) ==
    LET minute_length == get_next_minute_length(d)
        res == rdt_increase_second(d.second, d.new_minute, minute_length)
    IN  [ret |-> res.ret,
         d |-> [d EXCEPT !.old_second = IF d.new_minute THEN d.old_second ELSE d.second,
                         !.second = res.second]]

\* increase_second(): [ret, d]
increase_second(d) ==
    LET minute_length == get_next_minute_length(d)
        res == rdt_increase_second(d.second, d.new_minute, minute_length)
    IN  [ret |-> res.ret,
         d |-> [d EXCEPT !.old_second = d.second, !.second = res.second]]

\* DCF77Utils::add_minute(): [ret, d]
dcf77_add_minute(d) ==
    LET res == add_minute(clear_jumps(d.radio_datetime))
    IN  [ret |-> res.ok, d |-> [d EXCEPT !.radio_datetime = res.r]]

\* mutant of FrameSecond: the current second in both modes
FrameSecond_AlwaysSecond(d) == d.second

\* the second decode_time compares with the minute length (lines 300-303)
FrameSecond(d) == IF d.decode_type = "Live" THEN d.old_second ELSE d.second

\* mutant of FrameComplete: the minute length read as the top second index
FrameComplete_TopIndex(d, minute_length) ==
    (IF d.decode_type = "Live" THEN d.old_second ELSE d.second) = minute_length

FrameComplete(d, minute_length) == 1 + FrameSecond(d) = minute_length

\* mutant of DecodeDst: bits 17 and 18 are not compared
DecodeDst_Unchecked(bit_buffer) ==
    IF bit_buffer[17] # None /\ bit_buffer[18] # None THEN bit_buffer[17] ELSE None

\* the DST value of bits 17 and 18
DecodeDst(bit_buffer) ==
    IF bit_buffer[17] # None /\ bit_buffer[18] # None /\ bit_buffer[17] # bit_buffer[18]
    THEN bit_buffer[17] ELSE None

\* mutant of FieldValid: the field's own parity also with strict checks
FieldValid_OwnParity(strict_checks, strict_ok, parity) == parity = 0

\* mutant of FieldValid: a parity that was computed counts as a good one
FieldValid_ParityKnown(strict_checks, strict_ok, parity) ==
    IF strict_checks THEN strict_ok ELSE parity # None

\* the validity flag a field setter gets: strict_ok, or the field's parity
FieldValid(strict_checks, strict_ok, parity) ==
    IF strict_checks THEN strict_ok ELSE parity = 0

\* mutant of Parity3: the range ends one bit early
Parity3_ShortRange(bit_buffer) == get_parity(bit_buffer, 36, 56, bit_buffer[58])

\* the three parity results (lines 310-315)
Parity3(bit_buffer) == get_parity(bit_buffer, 36, 57, bit_buffer[58])

Parity1(bit_buffer) == get_parity(bit_buffer, 21, 27, bit_buffer[28])

Parity2(bit_buffer) == get_parity(bit_buffer, 29, 34, bit_buffer[35])

\* strict_ok (lines 326-331)
StrictOk(bit_buffer) ==
    /\ Parity1(bit_buffer) = 0 /\ Parity2(bit_buffer) = 0 /\ Parity3(bit_buffer) = 0
    /\ bit_buffer[0] = 0 /\ bit_buffer[20] = 1
    /\ DecodeDst(bit_buffer) # None

\* mutant of SetDateTime: the year is read from bits 51..57, one bit late
SetDateTime_YearShifted(r0, bb, strict_checks, check_jump) ==
    LET strict_ok == StrictOk(bb)
        r1 == set_minute(r0, get_bcd_value(bb, 21, 27),
                         FieldValid(strict_checks, strict_ok, Parity1(bb)), check_jump)
        r2 == set_hour(r1, get_bcd_value(bb, 29, 34),
                       FieldValid(strict_checks, strict_ok, Parity2(bb)), check_jump)
        r3 == set_weekday(r2, get_bcd_value(bb, 42, 44),
                          FieldValid(strict_checks, strict_ok, Parity3(bb)), check_jump)
        r4 == set_month(r3, get_bcd_value(bb, 45, 49),
                        FieldValid(strict_checks, strict_ok, Parity3(bb)), check_jump)
        r5 == set_year(r4, get_bcd_value(bb, 51, 57),
                       FieldValid(strict_checks, strict_ok, Parity3(bb)), check_jump)
    IN  set_day(r5, get_bcd_value(bb, 36, 41),
                FieldValid(strict_checks, strict_ok, Parity3(bb)), check_jump)

\* mutant of SetDateTime: the month is read without its tens bit 49
SetDateTime_MonthUnits(r0, bb, strict_checks, check_jump) ==
    LET strict_ok == StrictOk(bb)
        r1 == set_minute(r0, get_bcd_value(bb, 21, 27),
                         FieldValid(strict_checks, strict_ok, Parity1(bb)), check_jump)
        r2 == set_hour(r1, get_bcd_value(bb, 29, 34),
                       FieldValid(strict_checks, strict_ok, Parity2(bb)), check_jump)
        r3 == set_weekday(r2, get_bcd_value(bb, 42, 44),
                          FieldValid(strict_checks, strict_ok, Parity3(bb)), check_jump)
        r4 == set_month(r3, get_bcd_value(bb, 45, 48),
                        FieldValid(strict_checks, strict_ok, Parity3(bb)), check_jump)
        r5 == set_year(r4, get_bcd_value(bb, 50, 57),
                       FieldValid(strict_checks, strict_ok, Parity3(bb)), check_jump)
    IN  set_day(r5, get_bcd_value(bb, 36, 41),
                FieldValid(strict_checks, strict_ok, Parity3(bb)), check_jump)

\* the six field setters in the order of lines 333-391
SetDateTime(r0, bb, strict_checks, check_jump) ==
    LET strict_ok == StrictOk(bb)
        r1 == set_minute(r0, get_bcd_value(bb, 21, 27),
                         FieldValid(strict_checks, strict_ok, Parity1(bb)), check_jump)
        r2 == set_hour(r1, get_bcd_value(bb, 29, 34),
                       FieldValid(strict_checks, strict_ok, Parity2(bb)), check_jump)
        r3 == set_weekday(r2, get_bcd_value(bb, 42, 44),
                          FieldValid(strict_checks, strict_ok, Parity3(bb)), check_jump)
        r4 == set_month(r3, get_bcd_value(bb, 45, 49),
                        FieldValid(strict_checks, strict_ok, Parity3(bb)), check_jump)
        r5 == set_year(r4, get_bcd_value(bb, 50, 57),
                       FieldValid(strict_checks, strict_ok, Parity3(bb)), check_jump)
    IN  set_day(r5, get_bcd_value(bb, 36, 41),
                FieldValid(strict_checks, strict_ok, Parity3(bb)), check_jump)

\* set_dst and set_leap_second as decode_time calls them (lines 393-400)
SetDstAndLeap(r, bb, check_jump, minute_length) ==
    set_leap_second(set_dst(r, DecodeDst(bb), bb[16], check_jump), bb[19], minute_length)

\* mutant of LeapSecondIsOne: bit 59 is copied as it is, Unknown included
LeapSecondIsOne_RawBit(r, bb) ==
    IF r.leap_second # None /\ HasFlag(r.leap_second, LEAP_PROCESSED)
    THEN bb[59] ELSE None

\* mutant of LeapSecondIsOne: the announced flag is tested
LeapSecondIsOne_Announced(r, bb) ==
    IF r.leap_second # None /\ HasFlag(r.leap_second, LEAP_ANNOUNCED)
    THEN BoolToBit(bb[59] = 1) ELSE None

\* leap_second_is_one (lines 401-407)
LeapSecondIsOne(r, bb) ==
    IF r.leap_second # None /\ HasFlag(r.leap_second, LEAP_PROCESSED)
    THEN BoolToBit(bb[59] = 1) ELSE None

\* mutant of ClearFirst: bit 20 is only looked at with strict checks
ClearFirst_SkipsBit20(r, bb, strict_checks) ==
    (IF strict_checks THEN StrictOk(bb) ELSE bb[0] = 0) /\ is_valid(r)

\* the test that clears first_minute (lines 409-413)
ClearFirst(r, bb, strict_checks) ==
    (IF strict_checks THEN StrictOk(bb) ELSE bb[0] = 0 /\ bb[20] = 1) /\ is_valid(r)

\* mutant of DecodeFrame: with strict checks DST and leap second are only
\* forwarded when strict_ok holds
DecodeFrame_StrictDst(d, r0, strict_checks, added_minute, minute_length) ==
    LET bb == d.bit_buffer
        check_jump == added_minute /\ ~d.first_minute
        r6 == SetDateTime(r0, bb, strict_checks, check_jump)
        r8 == IF strict_checks /\ ~StrictOk(bb) THEN r6
              ELSE SetDstAndLeap(r6, bb, check_jump, minute_length)
    IN  [d EXCEPT !.bit_0 = bb[0],
                  !.third_party = get_binary_value(bb, 1, 14),
                  !.call_bit = bb[15],
                  !.bit_20 = bb[20],
                  !.parity_1 = Parity1(bb),
                  !.parity_2 = Parity2(bb),
                  !.parity_3 = Parity3(bb),
                  !.leap_second_is_one = LeapSecondIsOne(r8, bb),
                  !.first_minute = IF ClearFirst(r8, bb, strict_checks)
                                   THEN FALSE ELSE d.first_minute,
                  !.radio_datetime = bump_minutes_running(r8)]

\* mutant of DecodeFrame: a frame that fails the test sets first_minute
\* again
DecodeFrame_ResetsFirst(d, r0, strict_checks, added_minute, minute_length) ==
    LET bb == d.bit_buffer
        check_jump == added_minute /\ ~d.first_minute
        r6 == SetDateTime(r0, bb, strict_checks, check_jump)
        r8 == SetDstAndLeap(r6, bb, check_jump, minute_length)
    IN  [d EXCEPT !.bit_0 = bb[0],
                  !.third_party = get_binary_value(bb, 1, 14),
                  !.call_bit = bb[15],
                  !.bit_20 = bb[20],
                  !.parity_1 = Parity1(bb),
                  !.parity_2 = Parity2(bb),
                  !.parity_3 = Parity3(bb),
                  !.leap_second_is_one = LeapSecondIsOne(r8, bb),
                  !.first_minute = ~ClearFirst(r8, bb, strict_checks),
                  !.radio_datetime = bump_minutes_running(r8)]

\* the body of decode_time once the frame is complete (lines 305-419)
DecodeFrame(d, r0, strict_checks, added_minute, minute_length) ==
    LET bb == d.bit_buffer
        check_jump == added_minute /\ ~d.first_minute
        r6 == SetDateTime(r0, bb, strict_checks, check_jump)
        r8 == SetDstAndLeap(r6, bb, check_jump, minute_length)
    IN  [d EXCEPT !.bit_0 = bb[0],
                  !.third_party = get_binary_value(bb, 1, 14),
                  !.call_bit = bb[15],
                  !.bit_20 = bb[20],
                  !.parity_1 = Parity1(bb),
                  !.parity_2 = Parity2(bb),
                  !.parity_3 = Parity3(bb),
                  !.leap_second_is_one = LeapSecondIsOne(r8, bb),
                  !.first_minute = IF ClearFirst(r8, bb, strict_checks)
                                   THEN FALSE ELSE d.first_minute,
                  !.radio_datetime = bump_minutes_running(r8)]

\* mutant of decode_time_run: the buffer is emptied once its frame is decoded
decode_time_run_ClearsBuffer(d, strict_checks) ==
    LET cleared == clear_jumps(d.radio_datetime)
        minute_length == get_next_minute_length(d)
        added == IF ~d.first_minute THEN add_minute(cleared)
                 ELSE [ok |-> FALSE, r |-> cleared]
    IN  IF FrameComplete(d, minute_length)
        THEN [complete |-> TRUE,
              d |-> [DecodeFrame(d, added.r, strict_checks, added.ok, minute_length)
                         EXCEPT !.bit_buffer = [i \in Slots |-> None]]]
        ELSE [complete |-> FALSE, d |-> [d EXCEPT !.radio_datetime = added.r]]

\* mutant of decode_time_run: the aggregate is not advanced by a minute
\* before the frame is compared with it
decode_time_run_NoAddMinute(d, strict_checks) ==
    LET cleared == clear_jumps(d.radio_datetime)
        minute_length == get_next_minute_length(d)
        added == [ok |-> ~d.first_minute, r |-> cleared]
    IN  IF FrameComplete(d, minute_length)
        THEN [complete |-> TRUE,
              d |-> DecodeFrame(d, added.r, strict_checks, added.ok, minute_length)]
        ELSE [complete |-> FALSE, d |-> [d EXCEPT !.radio_datetime = added.r]]

\* decode_time(strict_checks): [complete, d], complete telling whether the
\* call took the frame-complete branch
decode_time_run(d, strict_checks) ==
    LET cleared == clear_jumps(d.radio_datetime)
        minute_length == get_next_minute_length(d)
        added == IF ~d.first_minute THEN add_minute(cleared)
                 ELSE [ok |-> FALSE, r |-> cleared]
    IN  IF FrameComplete(d, minute_length)
        THEN [complete |-> TRUE,
              d |-> DecodeFrame(d, added.r, strict_checks, added.ok, minute_length)]
        ELSE [complete |-> FALSE, d |-> [d EXCEPT !.radio_datetime = added.r]]

decode_time(d, strict_checks) == decode_time_run(d, strict_checks).d

\* ----------------------------------------------------------- test frames
\* BIT_BUFFER of the tests: minute 58, hour 16, Saturday 22 October 22,
\* summer time, no announcements, call bit set, third-party value 0x18f2
BIT_BUFFER ==
    << 0,
       0, 1, 0, 0, 1, 1, 1, 1, 0, 0, 0, 1, 1, 0,
       1,
       0, 1, 0,
       0,
       1,
       0, 0, 0, 1, 1, 0, 1, 1,
       0, 1, 1, 0, 1, 0, 1,
       0, 1, 0, 0, 0, 1,
       0, 1, 1,
       0, 0, 0, 0, 1,
       0, 1, 0, 0, 0, 1, 0, 0,
       1 >>

\* the frame as a 61-slot buffer; the end-of-minute slots stay None
FrameOk == [i \in Slots |-> IF i < Len(BIT_BUFFER) THEN BIT_BUFFER[i + 1] ELSE None]

\* the distortions of test_decode_time_complete_minute_bad_bits
FrameBadBits == [FrameOk EXCEPT ![26] = 1 - FrameOk[26], ![39] = None]

\* minute 59 with a leap second announced (the leap-second tests)
FrameLeapAnnounced == [FrameOk EXCEPT ![21] = 1, ![28] = 0, ![19] = 1]

\* the following minute 0 of hour 17, whose leap second bit 59 is 1
FrameLeapMinute ==
    [FrameLeapAnnounced EXCEPT ![21] = 0, ![24] = 0, ![25] = 0, ![27] = 0,
                               ![29] = 1, ![35] = 0, ![59] = 1]

\* the leap minute with a leap second bit of the regular value 0
FrameLeapMinuteZero == [FrameLeapMinute EXCEPT ![59] = 0]

\* the leap minute whose leap second bit 59 was not received
FrameLeapMinuteLost == [FrameLeapMinute EXCEPT ![59] = None]

\* the regular minute 1 that follows the leap minute (slot 59 is not
\* written again)
FrameAfterLeap == [FrameLeapMinute EXCEPT ![19] = 0, ![21] = 1, ![28] = 1]

\* the minute parity bit lost, the hour parity bit and one month bit flipped
FrameBadParities ==
    [FrameOk EXCEPT ![28] = None, ![35] = 1 - FrameOk[35], ![45] = 1 - FrameOk[45]]

\* winter time: bits 17 and 18 swapped
FrameWinter == [FrameOk EXCEPT ![17] = 0, ![18] = 1]

\* bits 17 and 18 equal, and bit 18 lost
FrameDstEqual == [FrameOk EXCEPT ![18] = 1]

FrameDstUnknown == [FrameOk EXCEPT ![18] = None]

\* minute 59 with a DST change announced (the DST test)
FrameDstAnnounced == [FrameOk EXCEPT ![21] = 1, ![28] = 0, ![16] = 1]

\* the leap second announcement at minute 59 in a frame with a lost date bit
FrameLeapBadDate == [FrameLeapAnnounced EXCEPT ![39] = None]

\* the minute after FrameOk with the distortions of
\* continue_decode_time_complete_minute_bad_bits
FrameNextBadBits == [FrameBadBits EXCEPT ![21] = 1, ![28] = 0]

\* the minute after FrameOk with one tens bit of the minute flipped: the
\* bits spell minute 49 and fail the minute parity
FrameNextBadMinute == [FrameOk EXCEPT ![21] = 1, ![28] = 0, ![25] = 0]

\* one bit of the third-party field lost
FrameThirdPartyLost == [FrameOk EXCEPT ![7] = None]

\* Thursday 31 December 99, 23:59, winter time: every digit differs from
\* those of FrameOk
FrameYearEnd ==
    [i \in Slots |->
        IF i < 17 THEN FrameOk[i]
        ELSE IF i < 21 THEN <<0, 1, 0, 1>>[i - 16]
        ELSE IF i < 29 THEN <<1, 0, 0, 1, 1, 0, 1, 0>>[i - 20]
        ELSE IF i < 36 THEN <<1, 1, 0, 0, 0, 1, 1>>[i - 28]
        ELSE IF i < 42 THEN <<1, 0, 0, 0, 1, 1>>[i - 35]
        ELSE IF i < 45 THEN <<0, 0, 1>>[i - 41]
        ELSE IF i < 50 THEN <<0, 1, 0, 0, 1>>[i - 44]
        ELSE IF i < 59 THEN <<1, 0, 0, 1, 1, 0, 0, 1, 0>>[i - 49]
        ELSE None]

\* bit 20 broken, parities fine
FrameBadBit20 == [FrameOk EXCEPT ![20] = 0]

\* ---------------------------------------------------------------- seeds
\* States a run of the program reaches, built with the operations themselves.

\* one tick of log replay: set_current_bit(frame[second]); increase_second()
Tick(d, frame) == increase_second(set_current_bit(d, frame[d.second])).d

RECURSIVE Feed(_, _, _)
\* n ticks of log replay (it ends early should a tick leave the buffer)
Feed(d, frame, n) ==
    IF n = 0 THEN d
    ELSE LET p == Tick(d, frame)
         IN  IF p.second \in Slots THEN Feed(p, frame, n - 1) ELSE p

\* a decoder that received the 59 bits of frame and stands at second 59
Received(dt, frame) == Feed(New(dt), frame, 59)

\* the decode_time call that ends the minute in each mode: directly in
\* LogFile mode, after increase_second in Live mode
EndMinute(d, strict_checks) ==
    IF d.decode_type = "LogFile" THEN decode_time(d, strict_checks)
    ELSE decode_time(increase_second(d).d, strict_checks)

\* the first edge ever, at timestamp t
FirstEdge(d, t) == (CHOOSE o \in handle_new_edge(d, TRUE, t) : TRUE).d

\* timestamps of the first edge: one from the tests, one shortly before the
\* microsecond counter wraps
StampTest == U32(366097734)

StampNearWrap == [hi |-> W16 - 1, lo |-> W16 - 20000]

FirstStamps == {StampTest, StampNearWrap}

\* seeds fed by log replay only, no edge seen yet
ReplaySeeds(dt) ==
    {New(dt), Feed(New(dt), FrameOk, 37)}
    \cup {Received(dt, f) :
              f \in {FrameOk, FrameBadBits, FrameLeapAnnounced, FrameBadBit20,
                      FrameBadParities}}
    \cup {EndMinute(Received(dt, f), FALSE) : f \in {FrameOk, FrameLeapAnnounced}}

\* the decoder at the last second of the 61-second minute that follows the
\* announcement: second 60 in LogFile mode, and in Live mode as well (the
\* increase_second of that tick is still to come)
LeapMinuteSeeds ==
    {increase_second(EndMinute(Received("LogFile", FrameLeapAnnounced), FALSE)).d,
     Feed(EndMinute(Received("Live", FrameLeapAnnounced), FALSE), FrameLeapMinute, 60)}

\* the minute after d's in log replay: force_new_minute and increase_second
\* start it, n ticks feed the bits of frame
NextMinute(d, frame, n) == Feed(increase_second(force_new_minute(d)).d, frame, n)

\* the decoder that got all 60 bits of the leap minute after decoding the
\* announcement at minute 59
LeapReceived(dt, frame) ==
    IF dt = "LogFile"
    THEN NextMinute(EndMinute(Received(dt, FrameLeapAnnounced), FALSE), frame, 60)
    ELSE Feed(EndMinute(Received(dt, FrameLeapAnnounced), FALSE), frame, 60)

\* and the one that decoded the leap minute and got the 59 bits of the
\* minute after it
AfterLeapReceived(dt) ==
    IF dt = "LogFile"
    THEN NextMinute(EndMinute(LeapReceived(dt, FrameLeapMinute), FALSE), FrameAfterLeap, 59)
    ELSE Feed(EndMinute(LeapReceived(dt, FrameLeapMinute), FALSE), FrameAfterLeap, 59)

\* decoders that received frames with the DST bits in each combination
DstSeeds ==
    {Received("LogFile", f) :
         f \in {FrameWinter, FrameDstEqual, FrameDstUnknown, FrameDstAnnounced}}
    \cup {Received("Live", f) : f \in {FrameWinter, FrameDstEqual}}
    \cup {Received("LogFile", FrameLeapBadDate)}
    \cup {Received("LogFile", FrameThirdPartyLost), Received("LogFile", FrameYearEnd)}

\* the decoder that decoded FrameOk and got the 59 bits of the next minute,
\* some of them distorted
ContinueReceived(dt, frame) ==
    IF dt = "LogFile"
    THEN NextMinute(EndMinute(Received(dt, FrameOk), FALSE), frame, 59)
    ELSE Feed(EndMinute(Received(dt, FrameOk), FALSE), frame, 59)

ContinueSeeds ==
    {ContinueReceived(dt, f) :
         dt \in DecodeTypes, f \in {FrameNextBadBits, FrameNextBadMinute}}

LeapSequenceSeeds ==
    {LeapReceived(dt, f) :
         dt \in DecodeTypes,
         f \in {FrameLeapMinute, FrameLeapMinuteZero, FrameLeapMinuteLost}}
    \cup {AfterLeapReceived(dt) : dt \in DecodeTypes}

\* live decoders that have seen their first edge: in mid-minute and at the
\* end of a minute, before and after its frame was decoded, the reference
\* far from and shortly before the rollover of the microsecond counter
EdgeSeeds ==
    {FirstEdge(d, StampTest) :
         d \in {Feed(New("Live"), FrameOk, 37), Received("Live", FrameOk),
                EndMinute(Received("Live", FrameOk), FALSE)}}
    \cup {FirstEdge(d, StampNearWrap) :
              d \in {Feed(New("Live"), FrameOk, 37), Received("Live", FrameBadBits)}}

\* ------------------------------------------------ live reception from edges
\* A live reception is a script of caller steps run on a new decoder: "edge"
\* is handle_new_edge delta microseconds after the last edge, "tick" is
\* increase_second, "after edge" is increase_second called only when the
\* edge before raised new_second.  The decode_time call that follows
\* increase_second in Live mode is left out of the scripts: they stay within
\* the first minute of a new decoder, where first_minute is set, the frame
\* is incomplete and the jump flags are clear, so that the call changes
\* nothing (lines 294-304).  The calls at the end of the minute are left to
\* the actions.

\* the length in microseconds of the pulse that carries bit: 100 ms for a
\* zero, 200 ms for a one
PulseUs(bit) == IF bit = 1 THEN 200000 ELSE 100000

\* the pause before the minute marker: second 59 carries no pulse
MarkerPause(frame) == 2 * SECOND_US - PulseUs(frame[58])

\* the pause before the rising edge of second k of the minute that
\* broadcasts frame
PauseBefore(frame, k) ==
    IF k = 0 THEN MarkerPause(frame) ELSE SECOND_US - PulseUs(frame[k - 1])

EdgeStep(is_low_edge, delta) == [c |-> "edge", is_low_edge |-> is_low_edge, delta |-> delta]

CallStep(c) == [c |-> c, is_low_edge |-> FALSE, delta |-> 0]

\* an edge that arrives delta microseconds after the last one (no spike)
EdgeAfter(d, is_low_edge, delta) ==
    (CHOOSE o \in handle_new_edge(d, is_low_edge, U32WrappingAdd(d.t0, U32(delta))) :
         ~o.panic).d

\* one step of a script
RunStep(d, s) ==
    IF s.c = "edge" THEN EdgeAfter(d, s.is_low_edge, s.delta)
    ELSE IF s.c = "tick" \/ d.new_second THEN increase_second(d).d
    ELSE d

RECURSIVE Run(_, _, _, _)
\* the steps i..j of script, first half first (it ends early should a step
\* leave the buffer)
Run(d, script, i, j) ==
    IF i >= j THEN RunStep(d, script[i])
    ELSE LET m == (i + j) \div 2
             p == Run(d, script, i, m)
         IN  IF p.second \in Slots THEN Run(p, script, m + 1, j) ELSE p

\* reception starts with the pulse of second 58: its rising edge is the
\* first edge ever (at 366097734), its falling edge the first significant one
StartScript == <<EdgeStep(FALSE, 366097734), EdgeStep(TRUE, PulseUs(FrameOk[58]))>>

\* seconds 0..n of the minute that broadcasts frame, driven by the edges
\* alone: rising edge, the increase_second it triggers, falling edge
EdgeDrivenScript(frame, n) ==
    [i \in 1 .. 3 * (n + 1) |->
        LET k == (i - 1) \div 3
            phase == (i - 1) % 3
        IN  IF phase = 0 THEN EdgeStep(FALSE, PauseBefore(frame, k))
            ELSE IF phase = 1 THEN CallStep("after edge")
            ELSE EdgeStep(TRUE, PulseUs(frame[k]))]

\* seconds 0..n of the minute that broadcasts frame in the documented call
\* order (tick, rising edge, falling edge), up to and including the rising
\* edge of second n
TickedScript(frame, n) ==
    [i \in 1 .. 3 * n + 2 |->
        LET k == (i - 1) \div 3
            phase == (i - 1) % 3
        IN  IF phase = 0 THEN CallStep("tick")
            ELSE IF phase = 1 THEN EdgeStep(FALSE, PauseBefore(frame, k))
            ELSE EdgeStep(TRUE, PulseUs(frame[k]))]

\* the broadcast seconds whose pulse the model lets arrive
PulseSeconds == {0, 1, 58}

\* the live receptions of the model: a noise-free minute received from its
\* edges alone, up to and including the rising edge that marks the next
\* minute; the same up to the falling edge of second 0; the marker seen one
\* tick after reception started, up to the rising edge of second 0, 1, 58
LiveScripts ==
    <<StartScript \o EdgeDrivenScript(FrameOk, 58)
          \o <<EdgeStep(FALSE, MarkerPause(FrameOk))>>,
      StartScript \o EdgeDrivenScript(FrameOk, 0),
      StartScript \o TickedScript(FrameOk, 0),
      StartScript \o TickedScript(FrameOk, 1),
      StartScript \o TickedScript(FrameOk, 58)>>

LiveRuns ==
    [i \in DOMAIN LiveScripts |->
        Run(New("Live"), LiveScripts[i], 1, Len(LiveScripts[i]))]

LiveSeeds == {LiveRuns[i] : i \in DOMAIN LiveScripts}

EdgeDrivenMarker == LiveRuns[1]

\* the decoder after second 0 of a minute received from its edges: marker,
\* increase_second, falling edge
AfterSecondZero == LiveRuns[2]

\* the decoder that saw the minute marker one tick after reception started
\* and waits for the falling edge of broadcast second k
TickedAt == (0 :> LiveRuns[3]) @@ (1 :> LiveRuns[4]) @@ (58 :> LiveRuns[5])

Seeds ==
    ReplaySeeds("LogFile") \cup ReplaySeeds("Live") \cup LeapMinuteSeeds
    \cup LeapSequenceSeeds \cup DstSeeds \cup ContinueSeeds
    \cup EdgeSeeds \cup LiveSeeds

\* --------------------------------------------------------- the machine
VARIABLES
    dcf77,      \* the DCF77Utils object
    pre,        \* the object before the last call
    op,         \* the last call: its name, arguments, return value, and the
                \* log-replay override called right before it, if any
    panicked,   \* the last call panicked: the program has stopped
    steps,      \* calls made since the seed state
    seen        \* the edges seen before the last call: the timestamp of the
                \* last edge that was not absorbed as a spike, the timestamp
                \* of the last edge of any kind, and the spikes absorbed
                \* between the two

vars == <<dcf77, pre, op, panicked, steps, seen>>

\* the two overrides of log replay
ReplayOverrides == {"set_current_bit", "force_new_minute"}

\* no call made yet
NoCall ==
    [name |-> "new", after |-> "other", is_low_edge |-> FALSE, t |-> U32(0),
     strict_checks |-> FALSE, value |-> None, ret |-> TRUE, complete |-> FALSE]

\* the record of a call; after names the call made before it when that was
\* one of the log-replay overrides
Call(name) ==
    [NoCall EXCEPT !.name = name,
                   !.after = IF op.name \in ReplayOverrides THEN op.name ELSE "other"]

\* seen once the last call is counted in: an edge absorbed as a spike (lines
\* 226-230) adds to the spikes, any other edge starts afresh
SeenNext ==
    IF op.name # "handle_new_edge" \/ panicked THEN seen
    ELSE IF ~pre.before_first_edge /\ IsSpike(pre, time_diff(pre.t0, op.t))
    THEN [seen EXCEPT !.spike = op.t, !.spikes = @ + 1]
    ELSE [real |-> op.t, spike |-> op.t, spikes |-> 0]

Init ==
    /\ dcf77 \in Seeds
    /\ seen = [real |-> dcf77.t0, spike |-> dcf77.t0, spikes |-> 0]
    /\ pre = dcf77
    /\ op = NoCall
    /\ panicked = FALSE
    /\ steps = 0

CanCall == ~panicked /\ steps < MaxSteps

\* the time since the last edge, of the edges the model feeds
Deltas ==
    {U32(n) : n \in {0, SPIKE_LIMIT - 1, SPIKE_LIMIT, ACTIVE_LIMIT - 1, ACTIVE_LIMIT,
                     ACTIVE_RUNAWAY - 1, ACTIVE_RUNAWAY,
                     SECOND_US - ACTIVE_RUNAWAY, SECOND_US - ACTIVE_RUNAWAY + 1,
                     MINUTE_LIMIT, MINUTE_LIMIT + 1,
                     PASSIVE_RUNAWAY - 1, PASSIVE_RUNAWAY}}
    \cup {U32_MAX}

\* the timestamps an edge can carry in state d
Stamps(d) ==
    IF d.before_first_edge THEN FirstStamps
    ELSE {U32WrappingAdd(d.t0, delta) : delta \in Deltas}

HandleNewEdge ==
    /\ CanCall
    /\ \E is_low_edge \in BOOLEAN, t \in Stamps(dcf77) :
          \E o \in handle_new_edge(dcf77, is_low_edge, t) :
             /\ dcf77' = o.d
             /\ panicked' = o.panic
             /\ op' = [Call("handle_new_edge") EXCEPT !.is_low_edge = is_low_edge, !.t = t]
    /\ pre' = dcf77
    /\ steps' = steps + 1
    /\ seen' = SeenNext

IncreaseSecond ==
    /\ CanCall
    /\ dcf77' = increase_second(dcf77).d
    /\ op' = [Call("increase_second") EXCEPT !.ret = increase_second(dcf77).ret]
    /\ pre' = dcf77
    /\ steps' = steps + 1
    /\ seen' = SeenNext
    /\ UNCHANGED panicked

DecodeTime ==
    /\ CanCall
    /\ \E strict_checks \in BOOLEAN :
          /\ dcf77' = decode_time_run(dcf77, strict_checks).d
          /\ op' = [Call("decode_time") EXCEPT
                       !.strict_checks = strict_checks,
                       !.complete = decode_time_run(dcf77, strict_checks).complete]
    /\ pre' = dcf77
    /\ steps' = steps + 1
    /\ seen' = SeenNext
    /\ UNCHANGED panicked

AddMinute ==
    /\ CanCall
    /\ dcf77' = dcf77_add_minute(dcf77).d
    /\ op' = [Call("add_minute") EXCEPT !.ret = dcf77_add_minute(dcf77).ret]
    /\ pre' = dcf77
    /\ steps' = steps + 1
    /\ seen' = SeenNext
    /\ UNCHANGED panicked

SetCurrentBit ==
    /\ CanCall
    /\ \E value \in {None, 0, 1} :
          /\ dcf77' = set_current_bit(dcf77, value)
          /\ op' = [Call("set_current_bit") EXCEPT !.value = value]
    /\ pre' = dcf77
    /\ steps' = steps + 1
    /\ seen' = SeenNext
    /\ UNCHANGED panicked

ForceNewMinute ==
    /\ CanCall
    /\ dcf77' = force_new_minute(dcf77)
    /\ op' = Call("force_new_minute")
    /\ pre' = dcf77
    /\ steps' = steps + 1
    /\ seen' = SeenNext
    /\ UNCHANGED panicked

SetSpikeLimit ==
    /\ CanCall
    /\ \E value \in {0, ACTIVE_LIMIT - 1, ACTIVE_LIMIT} :
          /\ dcf77' = set_spike_limit(dcf77, value)
          /\ op' = [Call("set_spike_limit") EXCEPT !.value = value]
    /\ pre' = dcf77
    /\ steps' = steps + 1
    /\ seen' = SeenNext
    /\ UNCHANGED panicked

Next ==
    \/ HandleNewEdge
    \/ IncreaseSecond
    \/ DecodeTime
    \/ AddMinute
    \/ SetCurrentBit
    \/ ForceNewMinute
    \/ SetSpikeLimit

Spec == Init /\ [][Next]_vars


\* ================================================================ claims
\* Every claim is a predicate on the last call: op (the call), pre (the
\* decoder before it) and dcf77 (the decoder after it).

\* the decoded outputs of decode_time
Outputs(d) ==
    <<d.parity_1, d.parity_2, d.parity_3, d.bit_0, d.third_party, d.call_bit,
      d.bit_20, d.leap_second_is_one>>

\* the date/time values and jump flags of the aggregate
DateTimeOf(r) ==
    <<r.minute, r.hour, r.weekday, r.day, r.month, r.year,
      r.jump_minute, r.jump_hour, r.jump_weekday, r.jump_day, r.jump_month, r.jump_year>>

\* the outputs decode_time reads straight from the buffer of a complete frame
OutputsFromBuffer(d, bb) ==
    /\ d.bit_0 = bb[0]
    /\ d.call_bit = bb[15]
    /\ d.bit_20 = bb[20]
    /\ d.third_party = get_binary_value(bb, 1, 14)
    /\ d.parity_1 = get_parity(bb, 21, 27, bb[28])
    /\ d.parity_2 = get_parity(bb, 29, 34, bb[35])
    /\ d.parity_3 = get_parity(bb, 36, 57, bb[58])

\* the minute length decode_time and increase_second read before the call
PreLength == get_next_minute_length(pre)

DecodeCalled == op.name = "decode_time"

\* C1 (as claimed): a decode_time call whose frame-complete test fails leaves
\* the decoded outputs, first_minute and the aggregate's date/time values and
\* jump flags unchanged, whatever the mode, strictness and first_minute.
C1_IncompleteDecodeIsNoOp ==
    (DecodeCalled /\ 1 + FrameSecond(pre) # PreLength)
        => /\ Outputs(dcf77) = Outputs(pre)
           /\ dcf77.first_minute = pre.first_minute
           /\ DateTimeOf(dcf77.radio_datetime) = DateTimeOf(pre.radio_datetime)

\* C2: in Live mode decode_time processes the frame exactly when old_second
\* + 1 equals the minute length, whatever second is: then the outputs are
\* read from the buffer, otherwise they keep their values.
C2_LiveFrameCompleteByOldSecond ==
    (DecodeCalled /\ pre.decode_type = "Live")
        => /\ op.complete <=> (pre.old_second + 1 = PreLength)
           /\ op.complete => OutputsFromBuffer(dcf77, pre.bit_buffer)
           /\ ~op.complete => Outputs(dcf77) = Outputs(pre)

\* C2 witness: a Live decode processed a frame after increase_second had
\* already moved second on (second + 1 is not the minute length).
C2_Witness ==
    /\ DecodeCalled /\ pre.decode_type = "Live" /\ op.complete
    /\ pre.old_second = 59 /\ pre.second = 0 /\ PreLength = 60
    /\ dcf77.parity_1 = 0

\* C3: in LogFile mode decode_time processes the frame exactly when second
\* + 1 equals the minute length (second 59 of 60, second 60 of 61), whatever
\* old_second is.
C3_LogFileFrameCompleteBySecond ==
    (DecodeCalled /\ pre.decode_type = "LogFile")
        => /\ op.complete <=> (pre.second + 1 = PreLength)
           /\ op.complete => OutputsFromBuffer(dcf77, pre.bit_buffer)
           /\ ~op.complete => Outputs(dcf77) = Outputs(pre)
           /\ (PreLength = 60 /\ pre.second = 59) => op.complete
           /\ (PreLength = 61 /\ pre.second = 60) => op.complete

\* C3 witness: a LogFile decode processed the 61-second minute at second 60
\* while old_second + 1 was not the minute length.
C3_Witness ==
    /\ DecodeCalled /\ pre.decode_type = "LogFile" /\ op.complete
    /\ pre.second = 60 /\ PreLength = 61 /\ pre.old_second + 1 # PreLength

IncreaseCalled == op.name = "increase_second"

\* C4: increase_second never leaves second above the minute length; without
\* new_minute it returns true and steps by one while the next value is below
\* the minute length (60, or 61 after an announcement at minute 59), and at
\* the minute length it wraps second to 0 and returns false, after which the
\* next call is an ordinary step again.
C4_IncreaseSecondStaysInMinute ==
    IncreaseCalled
        => /\ dcf77.second <= PreLength
           /\ PreLength \in {60, 61}
           /\ (PreLength = 61) <=>
                  (pre.radio_datetime.minute = 59 /\ pre.radio_datetime.leap_second # None
                   /\ HasFlag(pre.radio_datetime.leap_second, LEAP_ANNOUNCED))
           /\ (~pre.new_minute /\ pre.second + 1 < PreLength)
                  => (op.ret /\ dcf77.second = pre.second + 1)
           /\ (~pre.new_minute /\ pre.second + 1 = PreLength)
                  => (~op.ret /\ dcf77.second = 0)
           /\ ~op.ret => (dcf77.second = 0 /\ ~pre.new_minute)

\* C4 witness: the forced wrap of a 61-second minute: second 60 to 0, false.
C4_Witness ==
    /\ IncreaseCalled /\ ~pre.new_minute /\ PreLength = 61
    /\ pre.second = 60 /\ dcf77.second = 0 /\ ~op.ret

\* C5: with new_minute set increase_second resets second to 0 and returns
\* true from any second; it always records the prior second in old_second;
\* with new_minute clear and the next value inside the minute it adds one
\* and returns true.
C5_IncreaseSecondNewMinute ==
    IncreaseCalled
        => /\ dcf77.old_second = pre.second
           /\ pre.new_minute => (dcf77.second = 0 /\ op.ret)
           /\ (~pre.new_minute /\ pre.second + 1 < PreLength)
                  => (dcf77.second = pre.second + 1 /\ op.ret)

\* C5 witness: a minute boundary in mid-minute, second 37 reset to 0.
C5_Witness ==
    /\ IncreaseCalled /\ pre.new_minute /\ pre.second = 37
    /\ dcf77.second = 0 /\ dcf77.old_second = 37 /\ op.ret

\* an edge after the first one, and the time since the reference
EdgeCalled == op.name = "handle_new_edge" /\ ~pre.before_first_edge

EdgeDelta == time_diff(pre.t0, op.t)

DeltaBelow(n) == U32Lt(EdgeDelta, U32(n))

DeltaAbove(n) == U32Lt(U32(n), EdgeDelta)

SlotKept == dcf77.bit_buffer[pre.second] = pre.bit_buffer[pre.second]

\* C6 (as claimed): an edge closer than the spike limit to the reference
\* leaves the current slot, new_second and new_minute alone and moves t0 to
\* exactly old t0 + delta.
C6_SpikeShiftsReferenceByDelta ==
    (EdgeCalled /\ DeltaBelow(pre.spike_limit))
        => /\ ~panicked
           /\ SlotKept
           /\ dcf77.new_second = pre.new_second
           /\ dcf77.new_minute = pre.new_minute
           /\ U32AddCarry(pre.t0, EdgeDelta).carry = 0
           /\ dcf77.t0 = U32AddCarry(pre.t0, EdgeDelta).val

\* the bit the claims assign to an active time: Zero below ACTIVE_LIMIT, One
\* below ACTIVE_RUNAWAY, Unknown from there on
ClaimedBit ==
    IF DeltaBelow(ACTIVE_LIMIT) THEN 0
    ELSE IF DeltaBelow(ACTIVE_RUNAWAY) THEN 1
    ELSE None

\* C7 (as claimed): every falling edge after the first stores the bit of its
\* delta, Zero for [0, ACTIVE_LIMIT), and clears new_second.
C7_EveryFallingEdgeStoresBit ==
    (EdgeCalled /\ op.is_low_edge)
        => (dcf77.bit_buffer[pre.second] = ClaimedBit /\ ~dcf77.new_second)

\* C7 (amended): every falling edge after the first that is no spike (delta
\* at or above the spike limit) stores Zero for delta below ACTIVE_LIMIT, One
\* for [ACTIVE_LIMIT, ACTIVE_RUNAWAY), Unknown from ACTIVE_RUNAWAY on, and
\* clears new_second.
C7_FallingEdgeStoresBit ==
    (EdgeCalled /\ op.is_low_edge /\ ~DeltaBelow(pre.spike_limit))
        => (dcf77.bit_buffer[pre.second] = ClaimedBit /\ ~dcf77.new_second)

\* C7 witness: a falling edge exactly ACTIVE_LIMIT after the reference stored
\* One and cleared a set new_second.
C7_Witness ==
    /\ EdgeCalled /\ op.is_low_edge /\ EdgeDelta = U32(ACTIVE_LIMIT)
    /\ pre.new_second /\ ~dcf77.new_second
    /\ dcf77.bit_buffer[pre.second] = 1

\* a rising edge that is neither the first edge nor a spike
RisingCalled == EdgeCalled /\ ~op.is_low_edge /\ ~DeltaBelow(pre.spike_limit)

\* C8 (as claimed): every non-spike rising edge below PASSIVE_RUNAWAY sets
\* new_second.
C8_RisingEdgeSetsNewSecond ==
    (RisingCalled /\ DeltaBelow(PASSIVE_RUNAWAY)) => dcf77.new_second

\* C8 (amended): a non-spike rising edge below PASSIVE_RUNAWAY sets
\* new_second iff delta is greater than 1000000 - ACTIVE_RUNAWAY (750000
\* microseconds), and clears it otherwise.
C8_RisingEdgeNewSecond ==
    (RisingCalled /\ DeltaBelow(PASSIVE_RUNAWAY))
        => (dcf77.new_second <=> DeltaAbove(SECOND_US - ACTIVE_RUNAWAY))

\* C8 witness: a rising edge 750000 microseconds after the reference cleared
\* a set new_second.
C8_Witness ==
    /\ RisingCalled /\ EdgeDelta = U32(SECOND_US - ACTIVE_RUNAWAY)
    /\ pre.new_second /\ ~dcf77.new_second

\* C9: a non-spike rising edge below PASSIVE_RUNAWAY sets new_minute iff
\* delta is strictly greater than MINUTE_LIMIT and keeps the current slot.
C9_RisingEdgeNewMinute ==
    (RisingCalled /\ DeltaBelow(PASSIVE_RUNAWAY))
        => /\ dcf77.new_minute <=> DeltaAbove(MINUTE_LIMIT)
           /\ SlotKept

\* C9 witness: a rising edge exactly MINUTE_LIMIT after the reference cleared
\* a set new_minute and kept a known bit.
C9_Witness ==
    /\ RisingCalled /\ EdgeDelta = U32(MINUTE_LIMIT)
    /\ pre.new_minute /\ ~dcf77.new_minute
    /\ pre.bit_buffer[pre.second] # None /\ SlotKept

\* C10: a rising edge at or above PASSIVE_RUNAWAY marks the current slot
\* Unknown and leaves new_minute and new_second as they were.
C10_PassiveRunaway ==
    (RisingCalled /\ ~DeltaBelow(PASSIVE_RUNAWAY))
        => /\ dcf77.bit_buffer[pre.second] = None
           /\ dcf77.new_minute = pre.new_minute
           /\ dcf77.new_second = pre.new_second

\* C10 witness: a passive runaway erased a known bit while new_second and
\* new_minute, both set, stayed set.
C10_Witness ==
    /\ RisingCalled /\ EdgeDelta = U32(PASSIVE_RUNAWAY)
    /\ pre.bit_buffer[pre.second] # None /\ dcf77.bit_buffer[pre.second] = None
    /\ pre.new_second /\ dcf77.new_second
    /\ pre.new_minute /\ dcf77.new_minute

\* the first edge a decoder ever sees
FirstEdgeCalled == op.name = "handle_new_edge" /\ pre.before_first_edge

\* C11: the first call of handle_new_edge, of either polarity and with any
\* timestamp, only records the timestamp in t0 and clears before_first_edge:
\* bit buffer, second, new_second, new_minute and everything else keep
\* their values; and no call ever sets before_first_edge again.
C11_FirstEdgeOnlyRecordsReference ==
    /\ FirstEdgeCalled
           => /\ ~panicked
              /\ dcf77 = [pre EXCEPT !.before_first_edge = FALSE, !.t0 = op.t]
              /\ dcf77.bit_buffer = pre.bit_buffer
              /\ dcf77.second = pre.second
              /\ dcf77.new_second = pre.new_second
              /\ dcf77.new_minute = pre.new_minute
    /\ ~pre.before_first_edge => ~dcf77.before_first_edge

\* C11 witness: a first edge of rising polarity, a long time after the
\* reference 0 of the new decoder, on a decoder that holds bits.
C11_Witness ==
    /\ FirstEdgeCalled /\ ~op.is_low_edge /\ op.t = StampNearWrap
    /\ pre.bit_buffer[pre.second] # None
    /\ ~dcf77.before_first_edge /\ dcf77.t0 = StampNearWrap

\* the leap-second state has the flag
LeapFlag(r, flag) == r.leap_second # None /\ HasFlag(r.leap_second, flag)

\* C12: in every state get_this_minute_length is 61 iff the leap-second
\* state has the processed flag and 60 otherwise, get_next_minute_length is
\* 61 iff the minute is 59 and the leap-second state has the announced flag
\* and 60 otherwise; both are 60 while the leap-second state is None.
C12_MinuteLengthOracle ==
    LET r == dcf77.radio_datetime
    IN  /\ get_this_minute_length(dcf77) =
               (IF LeapFlag(r, LEAP_PROCESSED) THEN 61 ELSE 60)
        /\ get_next_minute_length(dcf77) =
               (IF r.minute = 59 /\ LeapFlag(r, LEAP_ANNOUNCED) THEN 61 ELSE 60)
        /\ r.leap_second = None
               => (get_this_minute_length(dcf77) = 60 /\ get_next_minute_length(dcf77) = 60)

\* C12 witness: the announced flag is set and the minute is not 59, so the
\* next minute has 60 seconds.
C12_Witness ==
    /\ LeapFlag(dcf77.radio_datetime, LEAP_ANNOUNCED)
    /\ dcf77.radio_datetime.minute = 0
    /\ get_next_minute_length(dcf77) = 60
    /\ get_this_minute_length(dcf77) = 60

\* a decode_time call that took the frame-complete branch
FrameDecoded == DecodeCalled /\ op.complete

\* the minute bits 21..27 of the buffer spell 59
SpellsMinute59(bb) == <<bb[21], bb[22], bb[23], bb[24], bb[25], bb[26], bb[27]>>
                          = <<1, 0, 0, 1, 1, 0, 1>>

\* the announcement of the frame being decoded has the majority the
\* aggregate asks for: with it, more than half of the minutes counted in
\* this hour announced the leap second (so on a decoder that starts with
\* this frame, and during an hour of announcements)
AnnouncementCounts ==
    2 * (pre.radio_datetime.leap_second_count + 1) > pre.radio_datetime.minutes_running

C14_CounterAndDecoderAgree ==
    /\ (IncreaseCalled /\ pre.decode_type = "Live")
           => get_next_minute_length(dcf77) = PreLength
    /\ (DecodeCalled /\ pre.decode_type = "LogFile")
           => get_next_minute_length(dcf77) = PreLength

\* the bits of the three parity groups, parity bit included
ParityGroup(k) ==
    CASE k = 1 -> 21 .. 28
      [] k = 2 -> 29 .. 35
      [] k = 3 -> 36 .. 58

ParityOf(d, k) ==
    CASE k = 1 -> d.parity_1
      [] k = 2 -> d.parity_2
      [] k = 3 -> d.parity_3

\* even parity by counting: None with an Unknown bit in the group, else
\* Some(false) for an even and Some(true) for an odd number of One bits
CountedParity(bb, k) ==
    IF \E i \in ParityGroup(k) : bb[i] = None THEN None
    ELSE Cardinality({i \in ParityGroup(k) : bb[i] = 1}) % 2

\* the parity results decode_time computes from a buffer
ParitiesOf(bb) == <<Parity1(bb), Parity2(bb), Parity3(bb)>>

\* C15: after decode_time processes a complete frame, each parity result is
\* None iff a bit of its group (range or parity bit) is Unknown, and else
\* Some(false) iff the number of One bits of the group is even; the same
\* buffer with one bit of a group flipped gives the opposite result, and
\* with one bit of a group Unknown gives None.
C15_ParityResults ==
    FrameDecoded =>
        LET bb == pre.bit_buffer
        IN  \A k \in 1 .. 3 :
                /\ ParityOf(dcf77, k) = CountedParity(bb, k)
                /\ \A i \in ParityGroup(k) :
                      /\ ParitiesOf([bb EXCEPT ![i] = None])[k] = None
                      /\ (bb[i] # None /\ ParityOf(dcf77, k) # None)
                             => ParitiesOf([bb EXCEPT ![i] = 1 - bb[i]])[k]
                                    = 1 - ParityOf(dcf77, k)

\* C15 witness: the three outcomes in one decode: the minute parity bad,
\* the hour parity good, the date parity undeterminable.
C15_Witness ==
    /\ FrameDecoded
    /\ dcf77.parity_1 = 1 /\ dcf77.parity_2 = 0 /\ dcf77.parity_3 = None
    /\ pre.bit_buffer[39] = None

\* bits 17 and 18 are both known and differ
DstDeterminate(bb) == bb[17] \in {0, 1} /\ bb[18] \in {0, 1} /\ bb[17] # bb[18]

\* C16: the DST value decode_time forwards is bit 17 when bits 17 and 18
\* are both known and unequal, and undetermined otherwise; an undetermined
\* value leaves the aggregate's DST state alone; on the first decoded frame
\* a determinate value makes the summer flag equal to bit 17, and bit 16 is
\* taken as the announcement whatever the values of bits 17 and 18.
C16_DstForwarding ==
    FrameDecoded =>
        LET bb == pre.bit_buffer
            r0 == pre.radio_datetime
            r == dcf77.radio_datetime
            first == r0.dst = None /\ r0.minutes_running = 0 /\ bb[16] # None
        IN  /\ DecodeDst(bb) = (IF DstDeterminate(bb) THEN bb[17] ELSE None)
            /\ ~DstDeterminate(bb) => r.dst = r0.dst
            /\ (DstDeterminate(bb) /\ first)
                   => /\ r.dst # None
                      /\ HasFlag(r.dst, DST_SUMMER) <=> bb[17] = 1
                      /\ r.minute \in 1 .. 59
                             => (HasFlag(r.dst, DST_ANNOUNCED) <=> bb[16] = 1)

\* C16 witness: bits 17 and 18 both One: the frame is decoded, date and time
\* are set, the DST state stays None.
C16_Witness ==
    /\ FrameDecoded
    /\ pre.bit_buffer[17] = 1 /\ pre.bit_buffer[18] = 1 /\ pre.bit_buffer[16] = 0
    /\ dcf77.radio_datetime.hour = 16 /\ dcf77.radio_datetime.dst = None

\* the BCD weights of up to eight bits, least significant first
BcdWeights == <<1, 2, 4, 8, 10, 20, 40, 80>>

RECURSIVE WeightedSum(_, _, _, _)
WeightedSum(bb, start, stop, k) ==
    IF start > stop THEN 0
    ELSE bb[start] * BcdWeights[k] + WeightedSum(bb, start + 1, stop, k + 1)

\* the value the bits start..stop broadcast: None with an Unknown bit or a
\* digit above 9
Broadcast(bb, start, stop) ==
    IF \E i \in start .. stop : bb[i] = None THEN None
    ELSE IF WeightedSum(bb, start, IF stop < start + 3 THEN stop ELSE start + 3, 1) > 9
              \/ WeightedSum(bb, start + 4, stop, 1) > 9
         THEN None
         ELSE WeightedSum(bb, start, stop, 1)

\* strict_ok as the claims state it
AllChecksOk(bb) ==
    /\ \A k \in 1 .. 3 : CountedParity(bb, k) = 0
    /\ bb[0] = 0 /\ bb[20] = 1
    /\ DstDeterminate(bb)

\* the validity flag the claims give the fields of parity group k
Gate(bb, strict_checks, k) ==
    IF strict_checks THEN AllChecksOk(bb) ELSE CountedParity(bb, k) = 0

\* the value a field has after a setter call with value v in lo..hi
Gated(old, v, lo, hi, valid) ==
    IF valid /\ v # None /\ v >= lo /\ v <= hi THEN v ELSE old

\* the aggregate the setters of a decode_time call start from: the one
\* before the call, a minute later once first_minute is false
SetterBase == IF pre.first_minute THEN pre.radio_datetime
              ELSE add_minute(clear_jumps(pre.radio_datetime)).r

\* C17: validity gating.  With strict checks every field setter gets the one
\* flag "all three parities OK, bit 0 Zero, bit 20 One, DST determinate", so
\* with any of these failing no date/time field is set; without strict
\* checks the minute is gated by parity 1, the hour by parity 2, and
\* weekday, day, month and year by parity 3.
C17_ValidityGating ==
    FrameDecoded =>
        LET bb == pre.bit_buffer
            b == SetterBase
            r == dcf77.radio_datetime
            s == op.strict_checks
            days == IF r.year # None /\ r.month # None /\ r.weekday # None
                    THEN last_day(r.year, r.month) ELSE 0
        IN  /\ r.minute = Gated(b.minute, Broadcast(bb, 21, 27), 0, 59, Gate(bb, s, 1))
            /\ r.hour = Gated(b.hour, Broadcast(bb, 29, 34), 0, 23, Gate(bb, s, 2))
            /\ r.weekday = Gated(b.weekday, Broadcast(bb, 42, 44), 1, 7, Gate(bb, s, 3))
            /\ r.month = Gated(b.month, Broadcast(bb, 45, 49), 1, 12, Gate(bb, s, 3))
            /\ r.year = Gated(b.year, Broadcast(bb, 50, 57), 0, 99, Gate(bb, s, 3))
            /\ r.day = Gated(b.day, Broadcast(bb, 36, 41), 1, days, Gate(bb, s, 3))
            /\ (s /\ ~AllChecksOk(bb))
                   => <<r.minute, r.hour, r.weekday, r.day, r.month, r.year>>
                          = <<b.minute, b.hour, b.weekday, b.day, b.month, b.year>>

\* C17 witness: a first decode with strict checks of a frame whose hour
\* parity is OK while the minute parity is bad: the hour stays None.
C17_Witness ==
    /\ FrameDecoded /\ op.strict_checks /\ pre.first_minute
    /\ dcf77.parity_2 = 0 /\ dcf77.parity_1 = 1
    /\ Broadcast(pre.bit_buffer, 29, 34) = 16
    /\ pre.radio_datetime.hour = None /\ dcf77.radio_datetime.hour = None

\* the aggregate after the decode_time call just made, had it been made
\* with strict checks and without
StrictResult == decode_time(pre, TRUE).radio_datetime

LaxResult == decode_time(pre, FALSE).radio_datetime

\* C18 (as claimed): for the same complete frame a strict and a non-strict
\* decode leave the aggregate with the same DST and leap-second state,
\* whatever the parities, bit 0 and bit 20.
C18_DstAndLeapSameStrictOrNot ==
    FrameDecoded
        => /\ StrictResult.dst = LaxResult.dst
           /\ StrictResult.leap_second = LaxResult.leap_second

\* C18 (amended): for the same complete frame a strict and a non-strict
\* decode leave the aggregate with the same DST and leap-second state
\* whenever they leave it with the same minute; the call made left one of
\* the two.
C18_DstAndLeapSameForSameMinute ==
    FrameDecoded
        => /\ dcf77.radio_datetime = (IF op.strict_checks THEN StrictResult ELSE LaxResult)
           /\ StrictResult.minute = LaxResult.minute
                  => /\ StrictResult.dst = LaxResult.dst
                     /\ StrictResult.leap_second = LaxResult.leap_second

\* C18 witness: a frame with bad parities whose hour only the non-strict
\* decode takes, the minute being taken by neither: both leave DST as summer
\* time and the leap-second state 0.
C18_Witness ==
    /\ FrameDecoded /\ dcf77.parity_1 = 1
    /\ StrictResult.hour = None /\ LaxResult.hour = 16
    /\ StrictResult.minute = LaxResult.minute
    /\ StrictResult.dst = DST_SUMMER /\ LaxResult.dst = DST_SUMMER
    /\ StrictResult.leap_second = 0 /\ LaxResult.leap_second = 0

\* the condition under which a decode_time call clears first_minute
ClearsFirstMinute ==
    /\ op.complete
    /\ pre.bit_buffer[0] = 0 /\ pre.bit_buffer[20] = 1
    /\ is_valid(dcf77.radio_datetime)
    /\ op.strict_checks => AllChecksOk(pre.bit_buffer)

\* C19: a decode_time call clears first_minute exactly when it processed a
\* complete frame with bit 0 Zero and bit 20 One, the aggregate is valid
\* after it, and, with strict checks, the three parities are OK and DST is
\* determinate; any other decode_time call, and any call of another method,
\* keeps first_minute, which never becomes true again.
C19_FirstMinuteCleared ==
    /\ DecodeCalled
           => dcf77.first_minute = (pre.first_minute /\ ~ClearsFirstMinute)
    /\ ~DecodeCalled => dcf77.first_minute = pre.first_minute

\* C19 witness: a first decode with strict checks of a frame that passes
\* them all clears first_minute.
C19_Witness ==
    /\ FrameDecoded /\ op.strict_checks
    /\ AllChecksOk(pre.bit_buffer)
    /\ is_valid(dcf77.radio_datetime)
    /\ pre.first_minute /\ ~dcf77.first_minute

\* the 14-bit third-party value, least significant bit first
ThirdPartyWeights ==
    <<1, 2, 4, 8, 16, 32, 64, 128, 256, 512, 1024, 2048, 4096, 8192>>

RECURSIVE ThirdPartyOf(_, _)
ThirdPartyOf(bb, i) ==
    IF i > 14 THEN 0 ELSE bb[i] * ThirdPartyWeights[i] + ThirdPartyOf(bb, i + 1)

\* the year, month and day the buffer broadcasts make a date
BroadcastsDate(bb) ==
    /\ Broadcast(bb, 50, 57) \in 0 .. 99
    /\ Broadcast(bb, 45, 49) \in 1 .. 12
    /\ Broadcast(bb, 42, 44) \in 1 .. 7
    /\ Broadcast(bb, 36, 41) \in
           1 .. last_day(Broadcast(bb, 50, 57), Broadcast(bb, 45, 49))

\* a complete, valid frame of a 60-second minute without leap second
\* announcement, arriving at a fresh decoder
ValidFrameOnFreshDecoder ==
    /\ FrameDecoded /\ PreLength = 60
    /\ pre.first_minute /\ pre.radio_datetime = RadioDateTimeUtils_new
    /\ AllChecksOk(pre.bit_buffer)
    /\ \A i \in 1 .. 19 : pre.bit_buffer[i] # None
    /\ pre.bit_buffer[19] = 0
    /\ Broadcast(pre.bit_buffer, 21, 27) \in 0 .. 59
    /\ Broadcast(pre.bit_buffer, 29, 34) \in 0 .. 23
    /\ BroadcastsDate(pre.bit_buffer)

\* C20: on a fresh decoder a complete non-leap frame that broadcasts a valid
\* minute, hour, weekday, day, month and year with consistent parity bits,
\* bit 0 Zero, bit 20 One and regular DST bits decodes, strict or not, to
\* exactly those values, with the three parities Some(false), the
\* third-party value and call bit as broadcast, the DST state that of bit
\* 17, leap-second state 0 and leap_second_is_one None.
C20_EndToEnd ==
    ValidFrameOnFreshDecoder =>
        LET bb == pre.bit_buffer
            r == dcf77.radio_datetime
        IN  /\ r.minute = Broadcast(bb, 21, 27)
            /\ r.hour = Broadcast(bb, 29, 34)
            /\ r.day = Broadcast(bb, 36, 41)
            /\ r.weekday = Broadcast(bb, 42, 44)
            /\ r.month = Broadcast(bb, 45, 49)
            /\ r.year = Broadcast(bb, 50, 57)
            /\ \A k \in 1 .. 3 : ParityOf(dcf77, k) = 0
            /\ dcf77.bit_0 = 0 /\ dcf77.bit_20 = 1
            /\ dcf77.third_party = ThirdPartyOf(bb, 1)
            /\ dcf77.call_bit = bb[15]
            /\ r.dst # None /\ (HasFlag(r.dst, DST_SUMMER) <=> bb[17] = 1)
            /\ r.leap_second = 0
            /\ dcf77.leap_second_is_one = None
            /\ ~dcf77.first_minute

\* C20 witness: the frame of the tests, decoded with strict checks:
\* Saturday 22 October 22, 16:58, summer time, third-party value 0x18f2.
C20_Witness ==
    /\ ValidFrameOnFreshDecoder /\ op.strict_checks
    /\ \A i \in 0 .. 58 : pre.bit_buffer[i] = BIT_BUFFER[i + 1]
    /\ LET r == dcf77.radio_datetime
       IN  <<r.minute, r.hour, r.weekday, r.day, r.month, r.year>> = <<58, 16, 6, 22, 10, 22>>
    /\ dcf77.radio_datetime.dst = DST_SUMMER
    /\ dcf77.third_party = 6386 /\ dcf77.call_bit = 1

\* the aggregate one minute after the one before the call, as decode_time
\* predicts it once first_minute is false
Predicted == add_minute(clear_jumps(pre.radio_datetime)).r

\* a complete frame decoded once first_minute is false, its minute validated
ValidMinuteAfterFirst ==
    /\ FrameDecoded /\ ~pre.first_minute
    /\ Gate(pre.bit_buffer, op.strict_checks, 1)
    /\ Broadcast(pre.bit_buffer, 21, 27) \in 0 .. 59

\* C21: once first_minute is false decode_time advances the aggregate by one
\* minute and then compares: a complete frame with a validated minute that
\* differs from the previous minute plus one raises the minute jump flag and
\* stores the decoded minute, and the jump flag of every field (minute, hour,
\* weekday, day, month, year) that equals the prediction stays clear.
C21_JumpAgainstPrediction ==
    ValidMinuteAfterFirst =>
        LET p == Predicted
            r == dcf77.radio_datetime
            m == Broadcast(pre.bit_buffer, 21, 27)
        IN  /\ r.minute = m
            /\ m # p.minute => r.jump_minute
            /\ r.minute = p.minute => ~r.jump_minute
            /\ r.hour = p.hour => ~r.jump_hour
            /\ r.weekday = p.weekday => ~r.jump_weekday
            /\ r.day = p.day => ~r.jump_day
            /\ r.month = p.month => ~r.jump_month
            /\ r.year = p.year => ~r.jump_year

\* C21 witness: the frame of minute 58 decoded a second time: the prediction
\* is minute 59, the frame says 58 again, and only the minute jumps.
C21_Witness ==
    /\ ValidMinuteAfterFirst
    /\ pre.radio_datetime.minute = 58 /\ Predicted.minute = 59
    /\ dcf77.radio_datetime.minute = 58 /\ dcf77.radio_datetime.jump_minute
    /\ LET r == dcf77.radio_datetime
       IN  ~r.jump_hour /\ ~r.jump_weekday /\ ~r.jump_day /\ ~r.jump_month /\ ~r.jump_year

\* the jump flags and values of the fields of parity group k
GroupFields(r, k) ==
    IF k = 1 THEN <<r.minute>>
    ELSE IF k = 2 THEN <<r.hour>>
    ELSE <<r.weekday, r.day, r.month, r.year>>

GroupJumps(r, k) ==
    IF k = 1 THEN {r.jump_minute}
    ELSE IF k = 2 THEN {r.jump_hour}
    ELSE {r.jump_weekday, r.jump_day, r.jump_month, r.jump_year}

\* C22: once first_minute is false, a completed frame with a parity group
\* that fails (bad parity, or an Unknown bit in the group) leaves the fields
\* of that group at the value obtained by adding one minute to the previous
\* time, raises no jump flag for them, and the parity getter of the group
\* reports the failure, Some(true) or None.
C22_UnvalidatedFieldKeepsPrediction ==
    (FrameDecoded /\ ~pre.first_minute) =>
        \A k \in 1 .. 3 :
            CountedParity(pre.bit_buffer, k) # 0 =>
                /\ GroupFields(dcf77.radio_datetime, k) = GroupFields(Predicted, k)
                /\ GroupJumps(dcf77.radio_datetime, k) = {FALSE}
                /\ ParityOf(dcf77, k) = CountedParity(pre.bit_buffer, k)
                /\ ParityOf(dcf77, k) \in {1, None}

\* C22 witness: the next minute of the tests: minute 58 was decoded, the
\* frame of minute 59 has a flipped minute bit and a lost day bit, and the
\* aggregate shows 16:59 of the same day by prediction alone.
C22_Witness ==
    /\ FrameDecoded /\ ~pre.first_minute /\ ~op.strict_checks
    /\ pre.radio_datetime.minute = 58
    /\ pre.bit_buffer[39] = None
    /\ dcf77.parity_1 = 1 /\ dcf77.parity_2 = 0 /\ dcf77.parity_3 = None
    /\ Broadcast(pre.bit_buffer, 21, 27) # 59
    /\ LET r == dcf77.radio_datetime
       IN  /\ <<r.minute, r.hour, r.weekday, r.day, r.month, r.year>> = <<59, 16, 6, 22, 10, 22>>
           /\ ~r.jump_minute /\ ~r.jump_day

\* C23: after every decode_time call that processes a complete frame,
\* leap_second_is_one is None unless the leap-second state the call leaves
\* has the processed flag; then it is Some(true) if bit 59 is One and
\* Some(false) otherwise, also when bit 59 is Unknown.
C23_LeapSecondIsOne ==
    FrameDecoded =>
        IF LeapFlag(dcf77.radio_datetime, LEAP_PROCESSED)
        THEN dcf77.leap_second_is_one = (IF pre.bit_buffer[59] = 1 THEN 1 ELSE 0)
        ELSE dcf77.leap_second_is_one = None

\* C23 witness: the leap minute is decoded, its bit 59 was never received,
\* and leap_second_is_one is Some(false).
C23_Witness ==
    /\ FrameDecoded /\ PreLength = 61
    /\ dcf77.radio_datetime.leap_second = LEAP_PROCESSED
    /\ pre.bit_buffer[59] = None
    /\ dcf77.leap_second_is_one = 0

\* an edge that is not the first one arrives while the spike limit is 0
EdgeWithoutSpikeLimit == EdgeCalled /\ pre.spike_limit = 0

\* C24: the spike limit is always in [0, ACTIVE_LIMIT): it starts at 30000,
\* set_spike_limit(v) stores v iff v < ACTIVE_LIMIT and otherwise leaves it
\* as it is, no other operation changes it, and with the limit at 0 no edge
\* is treated as a spike: every edge after the first is classified by its
\* delta and becomes the reference.
C24_SpikeLimitRange ==
    /\ dcf77.spike_limit \in 0 .. ACTIVE_LIMIT - 1
    /\ steps = 0 => dcf77.spike_limit = SPIKE_LIMIT
    /\ op.name = "set_spike_limit"
           => dcf77.spike_limit = (IF op.value < ACTIVE_LIMIT THEN op.value
                                   ELSE pre.spike_limit)
    /\ op.name # "set_spike_limit" => dcf77.spike_limit = pre.spike_limit
    /\ EdgeWithoutSpikeLimit
           => /\ ~panicked /\ dcf77.t0 = op.t
              /\ op.is_low_edge
                     => dcf77.bit_buffer[pre.second] = ClaimedBit /\ ~dcf77.new_second
              /\ (~op.is_low_edge /\ DeltaBelow(PASSIVE_RUNAWAY))
                     => /\ dcf77.new_second <=> DeltaAbove(SECOND_US - ACTIVE_RUNAWAY)
                        /\ dcf77.new_minute <=> DeltaAbove(MINUTE_LIMIT)
              /\ (~op.is_low_edge /\ ~DeltaBelow(PASSIVE_RUNAWAY))
                     => dcf77.bit_buffer[pre.second] = None

\* C24 witness: set_spike_limit(0) was called, and a falling edge with
\* delta 0 is classified: it stores Zero in a slot that was Unknown.
C24_Witness ==
    /\ EdgeWithoutSpikeLimit /\ steps = 2
    /\ op.is_low_edge /\ EdgeDelta = U32(0)
    /\ pre.bit_buffer[pre.second] = None /\ dcf77.bit_buffer[pre.second] = 0

RECURSIVE PlaceValue(_, _, _)
\* the number the bits start..stop spell, least significant bit first:
\* bit start counts once, every later bit twice the one before it
PlaceValue(bb, start, stop) ==
    IF start > stop THEN 0 ELSE bb[start] + 2 * PlaceValue(bb, start + 1, stop)

\* ranges of the buffer of one to fifteen bits, that of the third-party
\* field among them
BinaryRanges ==
    {<<1, 14>>, <<0, 6>>, <<0, 14>>, <<15, 15>>, <<21, 27>>, <<29, 35>>,
     <<36, 50>>, <<45, 59>>, <<59, 60>>}

\* C25: get_binary_value(buffer, start, stop) is the sum of bit_i *
\* 2^(i - start) when every bit of the range is known and None when one of
\* them is Unknown (on every buffer log replay fills); the third-party
\* value decode_time reads from bits 1-14 is that sum, in 0..=0x3FFF, not
\* reduced by any 16-bit overflow.
C25_BinaryValue ==
    /\ (steps = 0 \/ op.name = "set_current_bit") => \A rg \in BinaryRanges :
          get_binary_value(dcf77.bit_buffer, rg[1], rg[2])
              = (IF \E i \in rg[1] .. rg[2] : dcf77.bit_buffer[i] = None THEN None
                 ELSE PlaceValue(dcf77.bit_buffer, rg[1], rg[2]))
    /\ FrameDecoded =>
          /\ dcf77.third_party
                 = (IF \E i \in 1 .. 14 : pre.bit_buffer[i] = None THEN None
                    ELSE PlaceValue(pre.bit_buffer, 1, 14))
          /\ dcf77.third_party \in {None} \cup 0 .. 16383

\* C25 witness: a frame with bit 7 of the third-party field lost is
\* decoded: the third-party value is None, while bits 0..6 of the same
\* buffer give 0x64.
C25_Witness ==
    /\ FrameDecoded
    /\ pre.bit_buffer[7] = None /\ dcf77.third_party = None
    /\ get_binary_value(dcf77.bit_buffer, 0, 6) = 100

\* everything but the current slot and new_minute
WithoutOverrides(d) == [d EXCEPT !.bit_buffer[pre.second] = None, !.new_minute = FALSE]

\* C26: the log-replay overrides.  set_current_bit(v) stores v in the slot at
\* the current second and clears new_minute; force_new_minute sets
\* new_minute; neither changes anything else.  Of the two, the one called
\* last before increase_second decides: after force_new_minute
\* increase_second resets the second to 0, after set_current_bit it does
\* not (the second steps by one, or wraps by force at the minute length),
\* also when force_new_minute came before set_current_bit.
C26_ReplayOverrides ==
    /\ op.name = "set_current_bit"
           => /\ dcf77.bit_buffer[pre.second] = op.value
              /\ ~dcf77.new_minute
              /\ WithoutOverrides(dcf77) = WithoutOverrides(pre)
    /\ op.name = "force_new_minute"
           => /\ dcf77.new_minute
              /\ dcf77 = [pre EXCEPT !.new_minute = TRUE]
    /\ (IncreaseCalled /\ op.after = "force_new_minute")
           => (dcf77.second = 0 /\ op.ret)
    /\ (IncreaseCalled /\ op.after = "set_current_bit")
           => \/ op.ret /\ dcf77.second = pre.second + 1
              \/ ~op.ret /\ dcf77.second = 0 /\ pre.second + 1 >= PreLength

\* C26 witness: force_new_minute, then set_current_bit(Some(true)) at second
\* 37: the bit is stored and the forced minute boundary is gone.
C26_Witness ==
    /\ op.name = "set_current_bit" /\ op.after = "force_new_minute"
    /\ pre.new_minute /\ ~dcf77.new_minute
    /\ pre.second = 37 /\ op.value = 1 /\ dcf77.bit_buffer[37] = 1
    /\ increase_second(dcf77).d.second = 38

\* the microsecond counter wrapped between the reference and the edge
Wrapped == U32Lt(op.t, pre.t0)

\* the last edge was treated as one delta after the reference: as a spike
\* below the spike limit, else as a bit (falling) or as the start of a
\* second or minute or a passive runaway (rising)
ClassifiedBy(delta) ==
    IF U32Lt(delta, U32(pre.spike_limit))
    THEN /\ SlotKept
         /\ dcf77.new_second = pre.new_second /\ dcf77.new_minute = pre.new_minute
    ELSE IF op.is_low_edge
    THEN /\ dcf77.bit_buffer[pre.second]
                = (IF U32Lt(delta, U32(ACTIVE_LIMIT)) THEN 0
                   ELSE IF U32Lt(delta, U32(ACTIVE_RUNAWAY)) THEN 1 ELSE None)
         /\ ~dcf77.new_second /\ dcf77.new_minute = pre.new_minute
    ELSE IF U32Lt(delta, U32(PASSIVE_RUNAWAY))
    THEN /\ SlotKept
         /\ dcf77.new_second <=> U32Lt(U32(SECOND_US - ACTIVE_RUNAWAY), delta)
         /\ dcf77.new_minute <=> U32Lt(U32(MINUTE_LIMIT), delta)
    ELSE /\ dcf77.bit_buffer[pre.second] = None
         /\ dcf77.new_second = pre.new_second /\ dcf77.new_minute = pre.new_minute

\* C27: the delta handle_new_edge classifies is wrap-safe: it is t - t0
\* modulo 2^32, that is t - t0 for t >= t0 and (MAX - t0) + t + 1 once the
\* counter has wrapped: the one number that added to t0 gives t modulo 2^32.
\* So an edge that comes delta after the reference is classified by delta
\* whether or not the counter wrapped in between.
C27_WrapSafeDelta ==
    EdgeCalled =>
        /\ U32WrappingAdd(pre.t0, EdgeDelta) = op.t
        /\ ~Wrapped => EdgeDelta = U32Sub(op.t, pre.t0)
        /\ Wrapped => EdgeDelta = U32WrappingAdd(U32WrappingAdd(U32Sub(U32_MAX, pre.t0), op.t),
                                                 U32(1))
        /\ ClassifiedBy(EdgeDelta)

\* C27 witness: a falling edge exactly ACTIVE_LIMIT after a reference 20000
\* microseconds before the rollover stores One.
C27_Witness ==
    /\ EdgeCalled /\ Wrapped /\ op.is_low_edge
    /\ pre.t0 = StampNearWrap
    /\ op.t = U32(ACTIVE_LIMIT - 20000)
    /\ dcf77.bit_buffer[pre.second] = 1 /\ dcf77.t0 = op.t

\* bit k (0 the first) of a field whose units digit is units and whose tens
\* digit is tens: four bits of units, then the bits of tens, each least
\* significant bit first
DigitBit(units, tens, k) ==
    IF k < 4 THEN (units \div (2 ^ k)) % 2 ELSE (tens \div (2 ^ (k - 4))) % 2

\* a buffer with nothing but the two digits in the bits start..stop
Encoded(units, tens, start, stop) ==
    [i \in Slots |-> IF i \in start .. stop THEN DigitBit(units, tens, i - start) ELSE None]

\* the fields decode_time decodes: first bit, last bit, parity group
BcdFields ==
    {<<21, 27, 1>>, <<29, 34, 2>>, <<36, 41, 3>>, <<42, 44, 3>>, <<45, 49, 3>>, <<50, 57, 3>>}

\* the tens digits the bits after the units nibble can hold
TensOf(f) == IF f[2] - f[1] < 4 THEN {0} ELSE 0 .. (2 ^ (f[2] - f[1] - 3) - 1)

UnitsOf(f) == IF f[2] - f[1] < 3 THEN 0 .. 7 ELSE 0 .. 15

\* every pair of digits written into a field decodes to tens * 10 + units,
\* a nibble above 9 or one Unknown bit gives None
RoundTrip ==
    \A f \in BcdFields : \A units \in UnitsOf(f), tens \in TensOf(f) :
        LET bb == Encoded(units, tens, f[1], f[2])
        IN  /\ get_bcd_value(bb, f[1], f[2])
                   = (IF units <= 9 /\ tens <= 9 THEN 10 * tens + units ELSE None)
            /\ \A i \in f[1] .. f[2] :
                   get_bcd_value([bb EXCEPT ![i] = None], f[1], f[2]) = None

\* the bits start..stop of bb spell the value v
Spells(bb, start, stop, v) ==
    \A i \in start .. stop : bb[i] = DigitBit(v % 10, v \div 10, i - start)

\* C28: BCD decoding is a round trip.  A value encoded least significant bit
\* first into a units and a tens digit in the bits of minute (21-27), hour
\* (29-34), day (36-41), weekday (42-44), month (45-49) or year (50-57)
\* decodes to the same value, and to None with a digit above 9 or an Unknown
\* bit; a decoded frame whose validated field spells a value of the field's
\* range leaves that value in the aggregate.
C28_BcdRoundTrip ==
    /\ RoundTrip
    /\ FrameDecoded =>
          LET bb == pre.bit_buffer
              r == dcf77.radio_datetime
              s == op.strict_checks
          IN  /\ \A v \in 0 .. 59 :
                     (Spells(bb, 21, 27, v) /\ Gate(bb, s, 1)) => r.minute = v
              /\ \A v \in 0 .. 23 :
                     (Spells(bb, 29, 34, v) /\ Gate(bb, s, 2)) => r.hour = v
              /\ \A v \in 1 .. 7 :
                     (Spells(bb, 42, 44, v) /\ Gate(bb, s, 3)) => r.weekday = v
              /\ \A v \in 1 .. 12 :
                     (Spells(bb, 45, 49, v) /\ Gate(bb, s, 3)) => r.month = v
              /\ \A v \in 0 .. 99 :
                     (Spells(bb, 50, 57, v) /\ Gate(bb, s, 3)) => r.year = v
              /\ \A v \in 1 .. 31 :
                     (Spells(bb, 36, 41, v) /\ Gate(bb, s, 3) /\ r.month # None
                      /\ r.year # None /\ r.weekday # None
                      /\ v <= last_day(r.year, r.month)) => r.day = v

\* C28 witness: the frame of 31 December 99, 23:59 is decoded; its bits
\* spell 59, 23, 12 and 99 and these are the values of the aggregate.
C28_Witness ==
    /\ FrameDecoded
    /\ Spells(pre.bit_buffer, 21, 27, 59) /\ Spells(pre.bit_buffer, 29, 34, 23)
    /\ Spells(pre.bit_buffer, 45, 49, 12) /\ Spells(pre.bit_buffer, 50, 57, 99)
    /\ LET r == dcf77.radio_datetime
       IN  <<r.minute, r.hour, r.weekday, r.day, r.month, r.year>> = <<59, 23, 4, 31, 12, 99>>

\* the last call was an edge absorbed as a spike
SpikeAbsorbed == EdgeCalled /\ DeltaBelow(pre.spike_limit) /\ ~panicked

\* the last call was an edge that is no spike, and it came after one or more
\* absorbed spikes
EdgeAfterSpikes == EdgeCalled /\ ~DeltaBelow(pre.spike_limit) /\ seen.spikes > 0

\* C29 (as claimed): after one or more absorbed spikes the delta of the next
\* non-spike edge covers the whole time since the last non-spike edge, and
\* the edge is classified by that duration.
C29_SpikesAccumulate ==
    EdgeAfterSpikes =>
        /\ EdgeDelta = time_diff(seen.real, op.t)
        /\ ClassifiedBy(time_diff(seen.real, op.t))

\* C29 (amended): an absorbed spike moves the reference to its own
\* timestamp, so after one or more absorbed spikes the delta of the next
\* non-spike edge covers the time since the last spike only, and the edge
\* is classified by that delta.
C29_SpikesMoveReference ==
    /\ SpikeAbsorbed => dcf77.t0 = op.t
    /\ (EdgeCalled /\ seen.spikes > 0) => pre.t0 = seen.spike
    /\ EdgeAfterSpikes =>
           /\ EdgeDelta = time_diff(seen.spike, op.t)
           /\ ClassifiedBy(time_diff(seen.spike, op.t))

\* C29 witness: a spike 29999 microseconds after the first edge, then a
\* falling edge 149999 microseconds after the spike: 179998 microseconds
\* after the last edge that was no spike, and stored as Zero.
C29_Witness ==
    /\ EdgeAfterSpikes /\ op.is_low_edge
    /\ seen.spikes = 1 /\ time_diff(seen.real, seen.spike) = U32(SPIKE_LIMIT - 1)
    /\ EdgeDelta = U32(ACTIVE_LIMIT - 1)
    /\ time_diff(seen.real, op.t) = U32(SPIKE_LIMIT + ACTIVE_LIMIT - 2)
    /\ dcf77.bit_buffer[pre.second] = 0

\* C30: the bit buffer is never cleared and is written only at the current
\* second: handle_new_edge and set_current_bit change at most the slot at
\* second, and increase_second, decode_time, add_minute, force_new_minute
\* and set_spike_limit change no slot, so a slot the current minute has not
\* reached still holds what an earlier minute left there.
C30_BufferWrittenAtSecond ==
    /\ DOMAIN dcf77.bit_buffer = Slots
    /\ op.name \in {"handle_new_edge", "set_current_bit"}
           => \A i \in Slots \ {pre.second} : dcf77.bit_buffer[i] = pre.bit_buffer[i]
    /\ op.name \notin {"handle_new_edge", "set_current_bit"}
           => dcf77.bit_buffer = pre.bit_buffer

\* C30 witness: the regular minute after the leap minute is decoded to
\* minute 1 at second 59, and slot 59 still holds the leap second bit One
\* of the minute before.
C30_Witness ==
    /\ FrameDecoded /\ PreLength = 60
    /\ pre.radio_datetime.leap_second = LEAP_PROCESSED
    /\ dcf77.radio_datetime.minute = 1 /\ dcf77.radio_datetime.leap_second = 0
    /\ pre.bit_buffer[59] = 1 /\ dcf77.bit_buffer[59] = 1
    /\ dcf77.bit_buffer = pre.bit_buffer



\* C31 (as claimed): no handle_new_edge call is fatal: for every reference,
\* timestamp and polarity the call completes, and the reference update of a
\* spike either fits 32 bits or lands on the timestamp of the edge.
C31_EdgeNeverOverflows ==
    op.name = "handle_new_edge"
        => /\ ~panicked
           /\ (EdgeCalled /\ DeltaBelow(pre.spike_limit))
                 => \/ U32AddCarry(pre.t0, EdgeDelta).carry = 0
                    \/ dcf77.t0 = op.t

\* the second index stood at the last slot of a leap minute while the length
\* of the minute had gone back to 60, and increase_second was called
IncreaseAtSixty == IncreaseCalled /\ pre.second = 60 /\ PreLength = 60

\* C32: whatever was called, the second index is an index of the 61-slot bit
\* buffer, so the slot read and written at second exists; an increase_second
\* at second 60 of a minute whose length has gone back to 60 wraps to 0.
C32_SecondIndexesBuffer ==
    /\ dcf77.second \in Slots
    /\ dcf77.second \in DOMAIN dcf77.bit_buffer
    /\ IncreaseAtSixty => dcf77.second = 0

C32_Witness ==
    /\ IncreaseAtSixty
    /\ ~pre.new_minute
    /\ ~op.ret
    /\ dcf77.second = 0

\* C33 (as claimed): a noise-free 60-second minute received in Live mode from
\* its edges alone (increase_second right after each edge that raises
\* new_second, then decode_time) ends, at the rising edge of the next minute,
\* with old_second + 1 equal to the minute length, and the decode_time call
\* at the minute marker processes the frame.
C33_EdgeDrivenMinuteDecodes ==
    /\ (IncreaseCalled /\ pre = EdgeDrivenMarker)
          => dcf77.old_second + 1 = get_next_minute_length(dcf77)
    /\ (DecodeCalled /\ pre = increase_second(EdgeDrivenMarker).d) => op.complete

\* C34 (as claimed): in Live mode with increase_second called before the
\* edges of each second, once the minute marker has been seen the falling
\* edge that ends the pulse of broadcast second k writes the bit to slot k
\* and to no other slot; the first falling edge after the marker writes
\* slot 0.
C34_PulseWritesItsSlot ==
    \A k \in PulseSeconds :
        (EdgeCalled /\ op.is_low_edge /\ pre = TickedAt[k] /\ ~DeltaBelow(pre.spike_limit))
            => /\ dcf77.bit_buffer[k] = ActiveBit(EdgeDelta)
               /\ \A i \in Slots \ {k} : dcf77.bit_buffer[i] = pre.bit_buffer[i]

\* the last call was a rising edge that is neither a spike nor a passive
\* runaway
MarkerEdgeCalled ==
    /\ EdgeCalled /\ ~op.is_low_edge
    /\ ~DeltaBelow(pre.spike_limit) /\ DeltaBelow(PASSIVE_RUNAWAY)

\* C35: new_minute changes only on a rising edge that is neither a spike nor
\* a passive runaway, on set_current_bit (to false) and on force_new_minute
\* (to true); every other call leaves it as it was.  While it is true every
\* increase_second resets the second to 0 and leaves it true.
C35_NewMinuteChanges ==
    /\ dcf77.new_minute # pre.new_minute
          => \/ MarkerEdgeCalled
             \/ op.name = "set_current_bit" /\ ~dcf77.new_minute
             \/ op.name = "force_new_minute" /\ dcf77.new_minute
    /\ (IncreaseCalled /\ pre.new_minute) => (dcf77.new_minute /\ dcf77.second = 0)

\* C35 witness: after the minute marker, the increase_second that follows it
\* and the falling edge of second 0, a second increase_second finds
\* new_minute still true and resets the second to 0 again.
C35_Witness ==
    /\ IncreaseCalled
    /\ pre = AfterSecondZero
    /\ pre.new_minute /\ pre.second = 0 /\ pre.bit_buffer[0] = FrameOk[0]
    /\ dcf77.new_minute /\ dcf77.second = 0 /\ op.ret

\* C36 (as claimed): in Live mode a forced wrap of increase_second (it
\* returns false) leaves old_second + 1 equal to the minute length, as a
\* minute marker at the last second does; decode_time treats the frame as
\* complete exactly when old_second + 1 is the minute length; and a minute
\* marker at an earlier second resets the second to 0 and leaves
\* old_second + 1 short of the minute length, so that the frame is not decoded.
C36_ForcedWrapDecodes ==
    pre.decode_type = "Live" =>
        /\ (IncreaseCalled /\ ~op.ret)
              => /\ dcf77.second = 0
                 /\ dcf77.old_second + 1 = get_next_minute_length(dcf77)
        /\ (IncreaseCalled /\ pre.new_minute)
              => /\ dcf77.second = 0 /\ op.ret
                 /\ (dcf77.old_second + 1 = get_next_minute_length(dcf77))
                        <=> (pre.second + 1 = PreLength)
        /\ DecodeCalled => (op.complete <=> pre.old_second + 1 = PreLength)

\* C37: first_minute is true on a new decoder and only ever goes from true
\* to false: no call sets it back to true, and the call that clears it is a
\* decode_time call that processed a complete frame.
C37_FirstMinuteMonotonic ==
    /\ \A dt \in DecodeTypes : dcf77 = New(dt) => dcf77.first_minute
    /\ ~pre.first_minute => ~dcf77.first_minute
    /\ dcf77.first_minute # pre.first_minute => FrameDecoded

\* C37 witness: first_minute was false and decode_time processed, with
\* strict checks, a complete frame whose minute parity fails; first_minute
\* is still false.
C37_Witness ==
    /\ FrameDecoded /\ op.strict_checks
    /\ ~pre.first_minute
    /\ dcf77.parity_1 = 1
    /\ ~dcf77.first_minute

====
